---- MODULE Spec2Model ----
(***************************************************************************)
(* Model of the scan engine of index-media-server: the scanner worker      *)
(* (scanning_process.rs), the per-index video scan (video_scanning.rs),    *)
(* the in-memory staging buffers (temp_files.rs), the path classifier      *)
(* (classifier.rs) and the relational store the scanner writes to.         *)
(*                                                                         *)
(* Paths are sequences of path segments: <<"a","Show","Season 1",          *)
(* "E01.mkv">> stands for "/a/Show/Season 1/E01.mkv".  The empty sequence  *)
(* stands for Option::None of a path (and for the empty string "").        *)
(* A file's bytes are a content id; size and fast_hash are functions of the *)
(* bytes, so two files have the same (size, fast_hash) iff they have the   *)
(* same content id.                                                        *)
(***************************************************************************)
EXTENDS Integers, Sequences, FiniteSets, TLC

\* ------------------------------------------------------------------ bounds
MaxTime == 1
MaxEnqueue == 3
MaxFsOps == 1
MaxFail == 1
MaxCrash == 1
MaxOps == 24
MaxEvents == 4

\* ------------------------------------------------------- small helpers
NoPath == <<>>
NoNum == 0 - 1
NoId == 0

Front(s) == SubSeq(s, 1, Len(s) - 1)
Last(s) == s[Len(s)]

IsPrefix(p, q) == Len(p) <= Len(q) /\ SubSeq(q, 1, Len(p)) = p
IsProperPrefix(p, q) == Len(p) < Len(q) /\ SubSeq(q, 1, Len(p)) = p

MinOf(S) == CHOOSE x \in S : \A y \in S : x <= y
MaxOf(S) == CHOOSE x \in S : \A y \in S : x >= y

\* The row of S with the smallest id (rows come back in rowid order).
FirstRow(S) == CHOOSE r \in S : \A q \in S : r.id <= q.id

\* ------------------------------------------------------- the file universe
RootA == <<"a">>
RootB == <<"b">>

P_E01 == <<"a", "Show", "Season 1", "E01.mkv">>
P_E01r == <<"a", "Show", "Season 1", "E01.avi">>
P_X == <<"a", "x.mkv">>
P_Y == <<"a", "y.mkv">>
P_Mov == <<"a", "Avatar (2009)", "Avatar (2009).mkv">>
P_Ext == <<"a", "Avatar (2009)", "Behind The Scenes", "Making Of.mkv">>
P_Z == <<"b", "z.mkv">>
P_E02 == <<"a", "Show", "Season 1", "E02.mkv">>
P_E05 == <<"a", "Show", "Season 2", "E05.mkv">>
P_E01b == <<"b", "Show", "Season 1", "E01.mkv">>
P_Pt1 == <<"a", "Avatar (2009)", "Avatar (2009) - part1.mkv">>
P_Pt2 == <<"a", "Avatar (2009)", "Avatar (2009) - part2.mkv">>
P_Loose == <<"a", "Show S01E02.mkv">>
P_Movb == <<"b", "Avatar (2009)", "Avatar (2009).mkv">>
P_Bare == <<"a", "Avatar (2009).mkv">>
P_Sib == <<"a", "Avatar (2009) Bonus", "Extras", "Making Of.mkv">>
P_SExt == <<"a", "Show", "Season 1", "Extras", "Making Of.mkv">>
P_D1 == <<"a", "News", "2024-10-15.mkv">>
P_D2 == <<"a", "News", "2024-13-40.mkv">>
P_Sp == <<"a", "Show", "Specials", "E01.mkv">>

Paths == {P_E01, P_E01r, P_X, P_Y, P_Mov, P_Ext, P_Z,
          P_E02, P_E05, P_E01b, P_Pt1, P_Pt2, P_Loose, P_Movb, P_Bare, P_Sib, P_SExt,
          P_D1, P_D2, P_Sp}

\* Directories whose read_dir returns an error (permission denied).
Unreadable == {<<"a", "Show", "Season 2">>}

Absent == "absent"
Contents == {"c1", "c2", "c3"}

\* File system changes the environment may make between scans.
Renames == {<<P_E01, P_E01r>>}
\* A show folder moved from one root of a library to another.
RootMoves == {<<P_E01, P_E01b>>}
\* A movie folder copied from one root of a library to another.
RootCopies == {<<P_Mov, P_Movb>>}
Copies == {<<P_X, P_Y>>}

EmptyFs == [p \in Paths |-> Absent]
FsTv == [EmptyFs EXCEPT ![P_E01] = "c1", ![P_Z] = "c3"]
FsGeneric == [EmptyFs EXCEPT ![P_X] = "c1", ![P_Z] = "c3"]
FsMovie == [EmptyFs EXCEPT ![P_Mov] = "c1", ![P_Ext] = "c2", ![P_Z] = "c3"]
FsShow == [EmptyFs EXCEPT ![P_E01] = "c1"]
FsParts == [EmptyFs EXCEPT ![P_Pt1] = "c1", ![P_Pt2] = "c2"]
FsSeason == [EmptyFs EXCEPT ![P_E01] = "c1", ![P_E02] = "c2"]
FsLoose == [EmptyFs EXCEPT ![P_Loose] = "c1", ![P_E01] = "c2"]
FsTwoRoots == [EmptyFs EXCEPT ![P_E01] = "c1", ![P_E05] = "c2", ![P_E01b] = "c3"]
FsMixed == [EmptyFs EXCEPT ![P_X] = "c1", ![P_E01] = "c2"]
FsBare == [EmptyFs EXCEPT ![P_Bare] = "c1", ![P_Loose] = "c2"]
FsSibling == [EmptyFs EXCEPT ![P_Mov] = "c1", ![P_Sib] = "c2"]
FsShowExtra == [EmptyFs EXCEPT ![P_E01] = "c1", ![P_SExt] = "c2"]
FsNews == [EmptyFs EXCEPT ![P_D1] = "c1", ![P_D2] = "c2"]
FsSpecials == [EmptyFs EXCEPT ![P_E01] = "c1", ![P_Sp] = "c2"]
\* The same episode file, byte for byte, in the folders of two libraries.
FsShared == [EmptyFs EXCEPT ![P_E01] = "c1", ![P_E01b] = "c1"]

\* ------------------------------------------------------- lexical tables
\* What the classifier's regular expressions find in the names of the
\* universe above.

\* filename.rsplit_once('.')
Stem(name) ==
    CASE name = "E01.mkv" -> "E01"
      [] name = "E01.avi" -> "E01"
      [] name = "E02.mkv" -> "E02"
      [] name = "E05.mkv" -> "E05"
      [] name = "Avatar (2009) - part1.mkv" -> "Avatar (2009) - part1"
      [] name = "Avatar (2009) - part2.mkv" -> "Avatar (2009) - part2"
      [] name = "Show S01E02.mkv" -> "Show S01E02"
      [] name = "x.mkv" -> "x"
      [] name = "y.mkv" -> "y"
      [] name = "z.mkv" -> "z"
      [] name = "Avatar (2009).mkv" -> "Avatar (2009)"
      [] name = "Making Of.mkv" -> "Making Of"
      [] name = "2024-10-15.mkv" -> "2024-10-15"
      [] name = "2024-13-40.mkv" -> "2024-13-40"
      [] name = "Show S01E02 (2009).mkv" -> "Show S01E02 (2009)"
      [] name = "Show S01E02 2024-10-15.mkv" -> "Show S01E02 2024-10-15"
      [] name = "News 2024-10-15 (2009).mkv" -> "News 2024-10-15 (2009)"
      [] OTHER -> name

\* SEASON_FOLDER  (?i)^season\s+(\d+)$ : the captured number, or NoNum.
SeasonFolderNumber(folder) ==
    CASE folder = "Season 1" -> 1
      [] folder = "Season 2" -> 2
      [] OTHER -> NoNum

\* folder.to_lowercase() == "special" || == "specials"
IsSpecialsFolder(folder) == folder \in {"Specials", "specials", "Special", "special"}

\* extra_folders: the extra_type of a folder name, or "" when it is none.
ExtraFolderType(folder) ==
    CASE folder = "Extras" -> "extra"
      [] folder = "Behind The Scenes" -> "behindthescenes"
      [] OTHER -> ""

\* extra_suffixes: no stem of the universe contains one.
ExtraSuffixType(stem) == ""

\* TV_SXXEYY: <<season, episode>>, or <<>>.
MatchSxxEyy(stem) ==
    IF stem \in {"Show S01E02", "Show S01E02 (2009)", "Show S01E02 2024-10-15"}
    THEN <<1, 2>> ELSE <<>>

\* TV_EYY / TV_EPYY: the episode number, or NoNum.
MatchEyy(stem) ==
    CASE stem = "E01" -> 1
      [] stem = "E02" -> 2
      [] stem = "E05" -> 5
      [] stem \in {"Show S01E02", "Show S01E02 (2009)", "Show S01E02 2024-10-15"} -> 2
      [] OTHER -> NoNum

\* DATE_ISO / DATE_DMY: the captured <<year, month, day>>, or <<>>.
MatchDate(stem) ==
    CASE stem \in {"2024-10-15", "Show S01E02 2024-10-15", "News 2024-10-15 (2009)"}
             -> <<2024, 10, 15>>
      [] stem = "2024-13-40" -> <<2024, 13, 40>>
      [] OTHER -> <<>>

\* MOVIE_YEAR_PARENS / MOVIE_YEAR_DOTS: <<title, year>>, or <<>>.
MatchMovieYear(stem) ==
    IF stem \in {"Avatar (2009)", "Avatar (2009) - part1", "Avatar (2009) - part2"}
    THEN <<"Avatar", 2009>>
    ELSE IF stem = "Show S01E02 (2009)" THEN <<"Show S01E02", 2009>>
    ELSE IF stem = "News 2024-10-15 (2009)" THEN <<"News 2024-10-15", 2009>>
    ELSE <<>>

\* VERSION_BRACES / VERSION_DASH / VERSION_BRACKETS on what follows the year:
\* the version, or "" for none.
MovieVersion(stem) ==
    CASE stem = "Avatar (2009) - part1" -> "part1"
      [] stem = "Avatar (2009) - part2" -> "part2"
      [] OTHER -> ""

\* PART_PATTERN on what follows the year: the part number, or NoNum.
MoviePart(stem) ==
    CASE stem = "Avatar (2009) - part1" -> 1
      [] stem = "Avatar (2009) - part2" -> 2
      [] OTHER -> NoNum

\* ------------------------------------------------------- classifier
Folders(path) == Front(path)
FileName(path) == Last(path)

detect_extra(path) ==
    LET hits == {i \in 1..Len(Folders(path)) : ExtraFolderType(path[i]) # ""}
    IN IF hits # {} THEN ExtraFolderType(path[MinOf(hits)])
       ELSE ExtraSuffixType(Stem(FileName(path)))

\* Only the immediate parent folder is looked at; 0 when it is no season folder.
find_season_folder(folders) ==
    IF Len(folders) > 0 /\ SeasonFolderNumber(Last(folders)) # NoNum
    THEN Len(folders) ELSE 0

find_source_path(folders) ==
    LET k == find_season_folder(folders)
    IN IF k > 1 THEN SubSeq(folders, 1, k - 1) ELSE folders

extract_show_name(folders, stem) ==
    LET ok == {i \in 1..Len(folders) :
                  SeasonFolderNumber(folders[i]) = NoNum /\ ~IsSpecialsFolder(folders[i])}
    IN IF ok # {} THEN folders[MaxOf(ok)] ELSE stem

\* <<season, episode>> of a numbered episode, or <<>>.
detect_numbered_tv(path) ==
    LET folders == Folders(path)
        stem == Stem(FileName(path))
        k == find_season_folder(folders)
    IN IF MatchSxxEyy(stem) # <<>> THEN MatchSxxEyy(stem)
       ELSE IF k > 0 /\ MatchEyy(stem) # NoNum
            THEN <<SeasonFolderNumber(folders[k]), MatchEyy(stem)>>
       ELSE IF Len(folders) > 0 /\ IsSpecialsFolder(Last(folders)) /\ MatchEyy(stem) # NoNum
            THEN <<0, MatchEyy(stem)>>
       ELSE <<>>

\* chrono::NaiveDate::from_ymd_opt(year, month, day).is_some()
IsLeap(year) == (year % 4 = 0 /\ year % 100 # 0) \/ year % 400 = 0

DaysInMonth(year, month) ==
    CASE month \in {1, 3, 5, 7, 8, 10, 12} -> 31
      [] month \in {4, 6, 9, 11} -> 30
      [] month = 2 -> IF IsLeap(year) THEN 29 ELSE 28
      [] OTHER -> 0

from_ymd_opt(year, month, day) == month \in 1..12 /\ day \in 1..DaysInMonth(year, month)

\* Leap days of the years 1..year.
LeapsTo(year) == (year \div 4) - (year \div 100) + (year \div 400)

RECURSIVE DaysBeforeMonth(_, _)
DaysBeforeMonth(year, month) ==
    IF month <= 1 THEN 0
    ELSE DaysBeforeMonth(year, month - 1) + DaysInMonth(year, month - 1)

\* What a call that panics leaves in place of its result.
Panicked == "panic"

\* (date - epoch).num_days(); .expect("Invalid date") panics when the
\* triple is no date of the calendar.
days_since_epoch(year, month, day) ==
    IF from_ymd_opt(year, month, day)
    THEN [panic |-> FALSE,
          days |-> 365 * (year - 1970) + (LeapsTo(year - 1) - LeapsTo(1969))
                       + DaysBeforeMonth(year, month) + (day - 1)]
    ELSE [panic |-> TRUE, days |-> 0]

\* <<season, episode>> of an episode named by its air date, <<>> when the
\* stem has no date, <<Panicked>> when days_since_epoch panics.
detect_date_tv(path) ==
    LET folders == Folders(path)
        d == MatchDate(Stem(FileName(path)))
        k == find_season_folder(folders)
    IN IF d = <<>> THEN <<>>
       ELSE IF days_since_epoch(d[1], d[2], d[3]).panic THEN <<Panicked>>
       ELSE <<IF k > 0 THEN SeasonFolderNumber(folders[k]) ELSE d[1],
              days_since_epoch(d[1], d[2], d[3]).days>>

NoClass == [media_type |-> "Generic", source_path |-> NoPath, title |-> "",
            season |-> NoNum, episode |-> NoNum, extra_type |-> "",
            version |-> "", part |-> NoNum]

classify_path(path) ==
    LET folders == Folders(path)
        stem == Stem(FileName(path))
    IN IF detect_extra(path) # ""
       THEN [NoClass EXCEPT !.media_type = "Extra", !.extra_type = detect_extra(path)]
       ELSE IF detect_numbered_tv(path) # <<>>
       THEN [NoClass EXCEPT !.media_type = "TvEpisode",
                            !.source_path = find_source_path(folders),
                            !.title = extract_show_name(folders, stem),
                            !.season = detect_numbered_tv(path)[1],
                            !.episode = detect_numbered_tv(path)[2]]
       ELSE IF Len(detect_date_tv(path)) = 1
       THEN [NoClass EXCEPT !.media_type = Panicked]
       ELSE IF detect_date_tv(path) # <<>>
       THEN [NoClass EXCEPT !.media_type = "TvEpisode",
                            !.source_path = find_source_path(folders),
                            !.title = extract_show_name(folders, stem),
                            !.season = detect_date_tv(path)[1],
                            !.episode = detect_date_tv(path)[2]]
       ELSE IF MatchMovieYear(stem) # <<>>
       THEN [NoClass EXCEPT !.media_type = "Movie",
                            !.source_path = find_source_path(folders),
                            !.title = MatchMovieYear(stem)[1],
                            !.version = MovieVersion(stem),
                            !.part = MoviePart(stem)]
       ELSE [NoClass EXCEPT !.title = FileName(path)]

\* normalize(folder).contains(normalize(title)) and contains(year)
is_movie_in_matching_folder(title, folder_name) ==
    title = "Avatar" /\ folder_name = "Avatar (2009)"

\* The source_path the scanner derives for a classified file (None = NoPath).
ScanSourcePath(path, c) ==
    CASE c.media_type = "Movie" ->
            IF Len(path) >= 2 /\ is_movie_in_matching_folder(c.title, path[Len(path) - 1])
            THEN Front(path) ELSE NoPath
      [] c.media_type = "TvEpisode" -> c.source_path
      [] OTHER -> NoPath

\* ------------------------------------------------------- index configuration
Indexes == {1, 2}

\* The configurations index 2 may have: a second video library, a video
\* library with no folder configured, or a library of an unsupported kind.
\* With "tworoots" index 1 is a video library over both roots and index 2 is
\* of an unsupported kind.
Conf2 == {"videos", "nofolders", "photos", "tworoots"}

IndexType(conf, i) == IF i = 2 /\ conf \in {"photos", "tworoots"} THEN "photos" ELSE "videos"
IndexFolders(conf, i) ==
    IF i = 1 THEN (IF conf = "tworoots" THEN <<RootA, RootB>> ELSE <<RootA>>)
    ELSE IF conf = "nofolders" THEN <<>> ELSE <<RootB>>

\* ------------------------------------------------------- execution context
\* A handler runs on a context: the store tables, the scan worker's memory
\* (TempFileManager, SourcePathTracker) and the fault that is injected into
\* this run: the store call number cd (counted from 0) either returns an
\* error (fkind = "fail") or is never made because the process is killed
\* just before it (fkind = "crash").
VARIABLES items, versions, parts, nextId, idx,
          buf_new, buf_extra, tracker

Ctx(cd, fkind, t) ==
    [items |-> items, versions |-> versions, parts |-> parts, nextId |-> nextId,
     idx |-> idx, buf_new |-> buf_new, buf_extra |-> buf_extra, tracker |-> tracker,
     cd |-> cd, fkind |-> fkind, err |-> FALSE, dead |-> FALSE, hit |-> FALSE,
     panic |-> FALSE, logged |-> FALSE, now |-> t]

Live(c) == ~c.err /\ ~c.dead

\* One call to the store.
Call(c) ==
    IF ~Live(c) THEN c
    ELSE IF c.cd = 0
         THEN [c EXCEPT !.cd = 0 - 1, !.hit = TRUE,
                        !.err = (c.fkind = "fail"), !.dead = (c.fkind = "crash")]
    ELSE IF c.cd > 0 THEN [c EXCEPT !.cd = @ - 1]
    ELSE c

\* A panic unwinds the task of start_scanning_process: nothing of it runs on.
Panics(c) == IF c.dead THEN c ELSE [c EXCEPT !.dead = TRUE, !.panic = TRUE]

\* An error that is not a store error (anyhow::anyhow!(...)).
Raise(c) == IF Live(c) THEN [c EXCEPT !.err = TRUE] ELSE c

\* `match ... { Err(e) => eprintln!(...) }`: the error is logged and dropped.
Caught(c) == [c EXCEPT !.err = FALSE, !.logged = c.logged \/ c.err]

\* ------------------------------------------------------- repository: items
LastItemId(c) == c.nextId.item - 1
LastVersionId(c) == c.nextId.version - 1

add_video_item_with_number(c, index_id, type, title, parent_id, source_path, number, extra_type) ==
    LET d == Call(c)
    IN IF ~Live(d) THEN d
       ELSE [d EXCEPT !.items = @ \cup {[id |-> d.nextId.item, index_id |-> index_id,
                                         type |-> type, title |-> title,
                                         parent_id |-> parent_id,
                                         source_path |-> source_path,
                                         number |-> number, extra_type |-> extra_type,
                                         latest_added_at |-> d.now]},
                      !.nextId.item = @ + 1]

add_video_item(c, index_id, type, title, parent_id, source_path, extra_type) ==
    add_video_item_with_number(c, index_id, type, title, parent_id, source_path, NoNum, extra_type)

get_video_items_by_source_path(c, index_id, sp) ==
    {r \in c.items : r.index_id = index_id /\ r.source_path = sp}

get_video_items_by_parent_and_number(c, parent_id, n) ==
    {r \in c.items : r.parent_id = parent_id /\ r.number = n}

get_video_items_by_title(c, index_id, title) ==
    {r \in c.items : r.index_id = index_id /\ r.title = title}

get_video_items_by_parent(c, parent_id) == {r \in c.items : r.parent_id = parent_id}

update_video_item_source_path(c, id, sp) ==
    LET d == Call(c)
    IN IF ~Live(d) THEN d
       ELSE [d EXCEPT !.items = {IF r.id = id THEN [r EXCEPT !.source_path = sp] ELSE r : r \in @}]

\* The item and everything below it (parent links are at most 4 deep).
Subtree(its, id) ==
    LET l0 == {id}
        l1 == l0 \cup {r.id : r \in {q \in its : q.parent_id \in l0}}
        l2 == l1 \cup {r.id : r \in {q \in its : q.parent_id \in l1}}
        l3 == l2 \cup {r.id : r \in {q \in its : q.parent_id \in l2}}
    IN l3 \cup {r.id : r \in {q \in its : q.parent_id \in l3}}

\* DELETE with the store's foreign-key cascades: child items, versions, parts.
delete_video_item(c, id) ==
    LET d == Call(c)
        gone == Subtree(d.items, id)
        vgone == {v.id : v \in {w \in d.versions : w.item_id \in gone}}
    IN IF ~Live(d) THEN d
       ELSE [d EXCEPT !.items = {r \in @ : r.id \notin gone},
                      !.versions = {v \in @ : v.id \notin vgone},
                      !.parts = {p \in @ : p.version_id \notin vgone}]

\* ------------------------------------------------------- repository: versions
add_video_version_with_params(c, item_id, edition) ==
    LET d == Call(c)
    IN IF ~Live(d) THEN d
       ELSE [d EXCEPT !.versions = @ \cup {[id |-> d.nextId.version, item_id |-> item_id,
                                            edition |-> edition]},
                      !.nextId.version = @ + 1]

get_video_versions_by_item(c, item_id) == {v \in c.versions : v.item_id = item_id}

update_video_version_item_id(c, id, item_id) ==
    LET d == Call(c)
    IN IF ~Live(d) THEN d
       ELSE [d EXCEPT !.versions = {IF v.id = id THEN [v EXCEPT !.item_id = item_id] ELSE v : v \in @}]

delete_video_version(c, id) ==
    LET d == Call(c)
    IN IF ~Live(d) THEN d
       ELSE [d EXCEPT !.versions = {v \in @ : v.id # id},
                      !.parts = {p \in @ : p.version_id # id}]

\* ------------------------------------------------------- repository: parts
add_video_part_with_params(c, version_id, path, content, part_index) ==
    LET d == Call(c)
    IN IF ~Live(d) THEN d
       ELSE [d EXCEPT !.parts = @ \cup {[id |-> d.nextId.part, version_id |-> version_id,
                                         path |-> path, content |-> content,
                                         part_index |-> part_index,
                                         updated_at |-> d.now]},
                      !.nextId.part = @ + 1]

\* The content-identity probe: every part of the store with these bytes.
get_video_parts_by_size_and_hash(c, content) == {p \in c.parts : p.content = content}

get_video_parts_by_version(c, version_id) == {p \in c.parts : p.version_id = version_id}

update_video_part_updated_at(c, id) ==
    LET d == Call(c)
    IN IF ~Live(d) THEN d
       ELSE [d EXCEPT !.parts = {IF p.id = id THEN [p EXCEPT !.updated_at = d.now] ELSE p : p \in @}]

update_video_part_path(c, id, path) ==
    LET d == Call(c)
    IN IF ~Live(d) THEN d
       ELSE [d EXCEPT !.parts = {IF p.id = id THEN [p EXCEPT !.path = path, !.updated_at = d.now]
                                 ELSE p : p \in @}]

update_video_part_version_id(c, id, version_id) ==
    LET d == Call(c)
    IN IF ~Live(d) THEN d
       ELSE [d EXCEPT !.parts = {IF p.id = id THEN [p EXCEPT !.version_id = version_id] ELSE p : p \in @}]

delete_video_part(c, id) ==
    LET d == Call(c)
    IN IF ~Live(d) THEN d ELSE [d EXCEPT !.parts = {p \in @ : p.id # id}]

\* ------------------------------------------------------- repository: indexes
get_indexes_by_scan_status(c, status) == {i \in Indexes : c.idx[i].status = status}

update_scan_status(c, i, status) ==
    LET d == Call(c)
    IN IF ~Live(d) THEN d ELSE [d EXCEPT !.idx[i].status = status]

update_scan_status_with_timestamp(c, i, status, t) ==
    LET d == Call(c)
    IN IF ~Live(d) THEN d
       ELSE [d EXCEPT !.idx[i].status = status, !.idx[i].last_scanned_at = t]

\* ------------------------------------------------------- file system views
\* A directory exists when a file of the universe lies below it.
DirExists(fs, d) == \E p \in Paths : fs[p] # Absent /\ IsProperPrefix(d, p)

FilesIn(fs, d) == {p \in Paths : fs[p] # Absent /\ Front(p) = d}

SubdirsOf(fs, d) ==
    {SubSeq(p, 1, Len(d) + 1) : p \in {q \in Paths : fs[q] # Absent /\ IsProperPrefix(d, q)
                                                      /\ Len(q) > Len(d) + 1}}

\* b starts with a (String::contains at the end of the needle).
NameIsPrefix(a, b) == a = b \/ (a = "Avatar (2009)" /\ b = "Avatar (2009) Bonus")

\* hay.contains(needle) for two absolute paths written with '/'.
PathContains(hay, needle) ==
    \E i \in 1..(Len(hay) - Len(needle) + 1) :
        /\ \A j \in 1..(Len(needle) - 1) : hay[i + j - 1] = needle[j]
        /\ NameIsPrefix(needle[Len(needle)], hay[i + Len(needle) - 1])

\* ------------------------------------------------------- SourcePathTracker
track_source_path(c, sp) ==
    IF ~Live(c) THEN c
    ELSE IF c.tracker = NoPath THEN [c EXCEPT !.tracker = sp]
    ELSE IF c.tracker = sp THEN c
    ELSE Raise(c)

\* ------------------------------------------------------- commit of the buffers
\* format!("Season {}", n), "Specials" for season 0
SeasonTitle(n) ==
    CASE n = 0 -> "Specials"
      [] n = 1 -> "Season 1"
      [] n = 2 -> "Season 2"
      [] OTHER -> "Season N"

\* format!("Episode {}", n): no episode of the universe has a parsed title
\* or an air date.
EpisodeTitle(n) ==
    CASE n = 1 -> "Episode 1"
      [] n = 2 -> "Episode 2"
      [] n = 5 -> "Episode 5"
      [] OTHER -> "Episode N"

\* `let v = ...;` followed by the rest of the function body.
Bind(v, rest(_)) == rest(v)

\* The id of the row inserted last, whether or not a row was found.
FoundOrNew_LastInserted(rows, c) == LastItemId(c)

\* The id of the row found (the first one), or of the row just inserted.
FoundOrNew(rows, c) == IF rows # {} THEN FirstRow(rows).id ELSE LastItemId(c)

\* The part is inserted first, with the id the version row will get.
AddVersionAndPart_PartFirst(c, item_id, it, edition) ==
    Bind(add_video_part_with_params(c, c.nextId.version, it.path, it.content, 0), LAMBDA c1 :
         add_video_version_with_params(c1, item_id, edition))

\* add_video_version_with_params + add_video_part_with_params for one file.
AddVersionAndPart(c, item_id, it, edition) ==
    Bind(add_video_version_with_params(c, item_id, edition), LAMBDA c1 :
         add_video_part_with_params(c1, LastVersionId(c1), it.path, it.content, 0))

process_temp_movie(c, index_id, it) ==
    Bind(Call(c), LAMBDA c1 :
    Bind(get_video_items_by_source_path(c1, index_id, it.cls.source_path), LAMBDA existing :
    Bind(IF ~Live(c1) \/ existing # {} THEN c1
         ELSE add_video_item(c1, index_id, "movie", it.cls.title, NoId,
                             it.cls.source_path, ""), LAMBDA c2 :
         AddVersionAndPart(c2, FoundOrNew(existing, c2), it, it.cls.version))))

\* The season and the episode are inserted without being looked up first.
EpisodeUnderShow_NoLookup(c, index_id, it, show_id) ==
    Bind(add_video_item_with_number(c, index_id, "season", SeasonTitle(it.cls.season),
                                    show_id, NoPath, it.cls.season, ""), LAMBDA c4 :
    Bind(add_video_item_with_number(c4, index_id, "episode", EpisodeTitle(it.cls.episode),
                                    LastItemId(c4), NoPath, it.cls.episode, ""), LAMBDA c6 :
         AddVersionAndPart(c6, LastItemId(c6), it, it.cls.version)))

\* The season of the show, then the episode of the season, found or created.
EpisodeUnderShow(c, index_id, it, show_id) ==
    Bind(Call(c), LAMBDA c3 :
    Bind(get_video_items_by_parent_and_number(c3, show_id, it.cls.season), LAMBDA seasons :
    Bind(IF ~Live(c3) \/ seasons # {} THEN c3
         ELSE add_video_item_with_number(c3, index_id, "season", SeasonTitle(it.cls.season),
                                         show_id, NoPath, it.cls.season, ""), LAMBDA c4 :
    Bind(FoundOrNew(seasons, c4), LAMBDA season_id :
    Bind(Call(c4), LAMBDA c5 :
    Bind(get_video_items_by_parent_and_number(c5, season_id, it.cls.episode), LAMBDA episodes :
    Bind(IF ~Live(c5) \/ episodes # {} THEN c5
         ELSE add_video_item_with_number(c5, index_id, "episode",
                                         EpisodeTitle(it.cls.episode), season_id, NoPath,
                                         it.cls.episode, ""), LAMBDA c6 :
         AddVersionAndPart(c6, FoundOrNew(episodes, c6), it, it.cls.version))))))))

process_temp_tv_episode(c, index_id, it) ==
    Bind(Call(c), LAMBDA c1 :
    Bind(get_video_items_by_source_path(c1, index_id, it.cls.source_path), LAMBDA shows :
    Bind(IF ~Live(c1) \/ shows # {} THEN c1
         ELSE add_video_item(c1, index_id, "show", it.cls.title, NoId,
                             it.cls.source_path, ""), LAMBDA c2 :
         EpisodeUnderShow(c2, index_id, it, FoundOrNew(shows, c2)))))

process_temp_generic(c, index_id, it) ==
    Bind(Call(c), LAMBDA c1 :
    Bind(get_video_items_by_title(c1, index_id, it.cls.title), LAMBDA existing :
    Bind(IF ~Live(c1) \/ existing # {} THEN c1
         ELSE add_video_item(c1, index_id, "video", it.cls.title, NoId, NoPath, ""),
         LAMBDA c2 :
         AddVersionAndPart(c2, FoundOrNew(existing, c2), it, ""))))

process_temp_video_item(c, index_id, it) ==
    CASE it.cls.media_type = "Movie" -> process_temp_movie(c, index_id, it)
      [] it.cls.media_type = "TvEpisode" -> process_temp_tv_episode(c, index_id, it)
      [] OTHER -> process_temp_generic(c, index_id, it)

\* An extra written as an item of its own: kind, parent and extra_type given.
AddExtraRows(c, index_id, it, type, title, parent_id, extra_type) ==
    Bind(add_video_item(c, index_id, type, title, parent_id, NoPath, extra_type), LAMBDA c1 :
         AddVersionAndPart(c1, LastItemId(c1), it, ""))

process_temp_generic_from_extra(c, index_id, it) ==
    AddExtraRows(c, index_id, it, "video", FileName(it.path), NoId, "")

process_temp_movie_extra(c, index_id, it, parent_item_id) ==
    AddExtraRows(c, index_id, it, "extra", Stem(FileName(it.path)), parent_item_id,
                 it.extra_type)

\* The folder, among the 4 deepest, that names a season or an episode
\* (0 when there is none).
ShowExtraFolder(folders) ==
    Bind({i \in (IF Len(folders) > 4 THEN Len(folders) - 3 ELSE 1)..Len(folders) :
             \/ MatchSxxEyy(folders[i]) # <<>>
             \/ SeasonFolderNumber(folders[i]) # NoNum
             \/ IsSpecialsFolder(folders[i])}, LAMBDA named :
         IF named = {} THEN 0 ELSE MaxOf(named))

\* classify_show_extra: <<season, episode>> the extra belongs to.
ShowExtraTarget(path) ==
    Bind(ShowExtraFolder(Folders(path)), LAMBDA k :
         IF k = 0 THEN <<NoNum, NoNum>>
         ELSE IF MatchSxxEyy(path[k]) # <<>> THEN MatchSxxEyy(path[k])
         ELSE IF SeasonFolderNumber(path[k]) # NoNum
              THEN <<SeasonFolderNumber(path[k]), NoNum>>
         ELSE <<0, NoNum>>)

\* The extra goes under the show, whatever its folders name.
ShowExtraUnder_AlwaysShow(c, index_id, it, parent_item_id, tgt) ==
    AddExtraRows(c, index_id, it, "extra", Stem(FileName(it.path)), parent_item_id,
                 it.extra_type)

\* The extra goes under the episode, else the season, else the show.
ShowExtraUnder(c, index_id, it, parent_item_id, tgt) ==
    Bind(IF tgt[1] # NoNum THEN Call(c) ELSE c, LAMBDA c1 :
    Bind(IF tgt[1] # NoNum
         THEN get_video_items_by_parent_and_number(c1, parent_item_id, tgt[1])
         ELSE {}, LAMBDA seasons :
    Bind(IF Live(c1) /\ seasons # {} /\ tgt[2] # NoNum THEN Call(c1) ELSE c1, LAMBDA c2 :
    Bind(IF seasons # {} /\ tgt[2] # NoNum
         THEN get_video_items_by_parent_and_number(c2, FirstRow(seasons).id, tgt[2])
         ELSE {}, LAMBDA episodes :
         AddExtraRows(c2, index_id, it, "extra", Stem(FileName(it.path)),
                      IF episodes # {} THEN FirstRow(episodes).id
                      ELSE IF seasons # {} THEN FirstRow(seasons).id
                      ELSE parent_item_id,
                      it.extra_type)))))

process_temp_show_extra(c, index_id, it, parent_item_id) ==
    ShowExtraUnder(c, index_id, it, parent_item_id, ShowExtraTarget(it.path))

process_temp_extra_item(c, index_id, it, path_to_remove) ==
    IF path_to_remove = NoPath \/ ~PathContains(it.path, path_to_remove)
    THEN process_temp_generic_from_extra(c, index_id, it)
    ELSE Bind(Call(c), LAMBDA c1 :
         Bind(get_video_items_by_source_path(c1, index_id, path_to_remove), LAMBDA existing :
              IF ~Live(c1) THEN c1
              ELSE IF existing = {} THEN process_temp_generic_from_extra(c1, index_id, it)
              ELSE IF FirstRow(existing).type = "movie"
                   THEN process_temp_movie_extra(c1, index_id, it, FirstRow(existing).id)
              ELSE IF FirstRow(existing).type = "show"
                   THEN process_temp_show_extra(c1, index_id, it, FirstRow(existing).id)
              ELSE process_temp_generic_from_extra(c1, index_id, it)))

RECURSIVE CommitNew(_, _, _)
CommitNew(c, index_id, its) ==
    IF its = <<>> \/ ~Live(c) THEN c
    ELSE CommitNew(process_temp_video_item(c, index_id, Head(its)), index_id, Tail(its))

RECURSIVE CommitExtras(_, _, _, _)
CommitExtras(c, index_id, its, path_to_remove) ==
    IF its = <<>> \/ ~Live(c) THEN c
    ELSE CommitExtras(process_temp_extra_item(c, index_id, Head(its), path_to_remove),
                      index_id, Tail(its), path_to_remove)

\* The extras are written before the new content.
process_temp_files_ExtrasFirst(c, index_id, path_to_remove) ==
    Bind(CommitExtras(c, index_id, c.buf_extra, path_to_remove), LAMBDA c1 :
    Bind(CommitNew(c1, index_id, c1.buf_new), LAMBDA c2 :
         IF Live(c2) THEN [c2 EXCEPT !.buf_new = <<>>, !.buf_extra = <<>>] ELSE c2))

\* The buffers are cleared only when every item went through.
process_temp_files(c, index_id, path_to_remove) ==
    Bind(CommitNew(c, index_id, c.buf_new), LAMBDA c1 :
    Bind(CommitExtras(c1, index_id, c1.buf_extra, path_to_remove), LAMBDA c2 :
         IF Live(c2) THEN [c2 EXCEPT !.buf_new = <<>>, !.buf_extra = <<>>] ELSE c2))

\* ------------------------------------------------------- item migration
\* The part is moved with its version row when it is the version's only
\* part; otherwise the version row is read and cloned, and the part repointed.
MoveVersionOrPart(c, video_part_id, video_version_id, new_item_id) ==
    IF ~Live(c) THEN c
    ELSE IF {p \in get_video_parts_by_version(c, video_version_id) : p.id # video_part_id} = {}
         THEN update_video_version_item_id(c, video_version_id, new_item_id)
    ELSE Bind(Call(c), LAMBDA k1 :
         Bind(add_video_version_with_params(
                  k1, new_item_id,
                  (CHOOSE v \in k1.versions : v.id = video_version_id).edition), LAMBDA k2 :
              update_video_part_version_id(k2, video_part_id, LastVersionId(k2))))

move_video_part_to_item(c, video_part_id, video_version_id, old_item_id, new_item_id) ==
    Bind(MoveVersionOrPart(Call(c), video_part_id, video_version_id, new_item_id), LAMBDA c2 :
    Bind(Call(c2), LAMBDA c3 :
         IF ~Live(c3) THEN c3
         ELSE IF get_video_versions_by_item(c3, old_item_id) = {}
              THEN delete_video_item(c3, old_item_id)
         ELSE c3))

\* The item of the new folder is never inserted: the part is moved to the id
\* the next insert would take.
MigrateItem_NoClone(c, fs, video_part_id, video_item, video_version, old_source_path, new_source_path) ==
    Bind(get_video_items_by_source_path(c, video_item.index_id, new_source_path),
         LAMBDA new_path_items :
         IF ~DirExists(fs, old_source_path) /\ new_path_items = {}
         THEN update_video_item_source_path(c, video_item.id, new_source_path)
         ELSE IF new_path_items = {}
         THEN move_video_part_to_item(c, video_part_id, video_version.id,
                                      video_item.id, c.nextId.item)
         ELSE move_video_part_to_item(c, video_part_id, video_version.id,
                                      video_item.id, FirstRow(new_path_items).id))

\* The three cases of the migration, once the part's item and version are read.
MigrateItem(c, fs, video_part_id, video_item, video_version, old_source_path, new_source_path) ==
    Bind(get_video_items_by_source_path(c, video_item.index_id, new_source_path),
         LAMBDA new_path_items :
         IF ~DirExists(fs, old_source_path) /\ new_path_items = {}
         THEN update_video_item_source_path(c, video_item.id, new_source_path)
         ELSE IF new_path_items = {}
         THEN Bind(add_video_item_with_number(c, video_item.index_id, video_item.type,
                                              video_item.title, video_item.parent_id,
                                              new_source_path, NoNum, video_item.extra_type),
                   LAMBDA n1 :
                   move_video_part_to_item(n1, video_part_id, video_version.id,
                                           video_item.id, LastItemId(n1)))
         ELSE move_video_part_to_item(c, video_part_id, video_version.id,
                                      video_item.id, FirstRow(new_path_items).id))

\* get_video_version_by_id then get_video_item_by_id; a missing row is an error.
WithItemOfVersion(c, version_id, rest(_, _, _)) ==
    Bind(Call(c), LAMBDA c1 :
    Bind({v \in c1.versions : v.id = version_id}, LAMBDA version_rows :
         IF ~Live(c1) THEN c1
         ELSE IF version_rows = {} THEN Raise(c1)
         ELSE Bind(Call(c1), LAMBDA c2 :
              Bind({r \in c2.items : r.id = FirstRow(version_rows).item_id}, LAMBDA item_rows :
                   IF ~Live(c2) THEN c2
                   ELSE IF item_rows = {} THEN Raise(c2)
                   ELSE rest(c2, FirstRow(version_rows), FirstRow(item_rows))))))

handle_episode_migration(c, fs, video_part_id, old_source_path, new_source_path) ==
    Bind(Call(c), LAMBDA c1 :
    Bind({p \in c1.parts : p.id = video_part_id}, LAMBDA part_rows :
         IF ~Live(c1) THEN c1
         ELSE IF part_rows = {} THEN Raise(c1)
         ELSE WithItemOfVersion(c1, FirstRow(part_rows).version_id,
                  LAMBDA c3, video_version, video_item :
                      Bind(Call(c3), LAMBDA c4 :
                           IF ~Live(c4) THEN c4
                           ELSE MigrateItem(c4, fs, video_part_id, video_item, video_version,
                                            old_source_path, new_source_path)))))

\* ------------------------------------------------------- per-file processing
add_movie_immediately(c, index_id, path, content) ==
    Bind(Call(c), LAMBDA c1 :
    Bind(get_video_items_by_title(c1, index_id, Stem(FileName(path))), LAMBDA existing :
    Bind(IF ~Live(c1) \/ existing # {} THEN c1
         ELSE add_video_item(c1, index_id, "movie", Stem(FileName(path)), NoId, NoPath, ""),
         LAMBDA c2 :
         AddVersionAndPart(c2, FoundOrNew(existing, c2),
                           [path |-> path, content |-> content], ""))))

\* The part is known under another path.
ProcessMovedPart(c, fs, path, existing_part) ==
    Bind(ScanSourcePath(path, classify_path(path)), LAMBDA new_source_path :
    Bind(WithItemOfVersion(c, existing_part.version_id,
             LAMBDA c3, video_version, video_item :
                 IF new_source_path # NoPath /\ video_item.source_path # new_source_path
                 THEN IF video_item.source_path # NoPath
                      THEN handle_episode_migration(c3, fs, existing_part.id,
                                                    video_item.source_path, new_source_path)
                      ELSE update_video_item_source_path(c3, video_item.id, new_source_path)
                 ELSE c3), LAMBDA c4 :
         update_video_part_path(c4, existing_part.id, path)))

\* A movie without source_path is added at once, whatever is tracked.
ProcessNewFile_AlwaysImmediate(c, index_id, path, content) ==
    Bind(classify_path(path), LAMBDA classified :
    Bind(ScanSourcePath(path, classified), LAMBDA source_path :
         IF classified.media_type = "Extra"
         THEN [c EXCEPT !.buf_extra = Append(@, [path |-> path, content |-> content,
                                                  extra_type |-> classified.extra_type])]
         ELSE Bind(IF source_path # NoPath THEN track_source_path(c, source_path) ELSE c,
                   LAMBDA c1 :
                   IF ~Live(c1) THEN c1
                   ELSE IF classified.media_type = "Movie" /\ source_path = NoPath
                        THEN add_movie_immediately(c1, index_id, path, content)
                   ELSE [c1 EXCEPT !.buf_new = Append(@, [path |-> path, content |-> content,
                                                           cls |-> classified])])))

\* The bytes are not in the store yet.
ProcessNewFile(c, index_id, path, content) ==
    Bind(classify_path(path), LAMBDA classified :
    Bind(ScanSourcePath(path, classified), LAMBDA source_path :
         IF classified.media_type = "Extra"
         THEN [c EXCEPT !.buf_extra = Append(@, [path |-> path, content |-> content,
                                                  extra_type |-> classified.extra_type])]
         ELSE Bind(IF source_path # NoPath THEN track_source_path(c, source_path) ELSE c,
                   LAMBDA c1 :
                   IF ~Live(c1) THEN c1
                   ELSE IF classified.media_type = "Movie" /\ source_path = NoPath
                        THEN IF c1.tracker = NoPath
                             THEN add_movie_immediately(c1, index_id, path, content)
                             ELSE Raise(c1)
                   ELSE [c1 EXCEPT !.buf_new = Append(@, [path |-> path, content |-> content,
                                                           cls |-> classified])])))

process_video_file(c, fs, index_id, path) ==
    Bind(Call(c), LAMBDA c1 :
    Bind(get_video_parts_by_size_and_hash(c1, fs[path]), LAMBDA existing_parts :
         IF ~Live(c1) THEN c1
         ELSE IF existing_parts # {}
              THEN IF FirstRow(existing_parts).path = path
                   THEN update_video_part_updated_at(c1, FirstRow(existing_parts).id)
                   ELSE ProcessMovedPart(c1, fs, path, FirstRow(existing_parts))
         ELSE ProcessNewFile(c1, index_id, path, fs[path])))

\* ------------------------------------------------------- reaping
\* ORDER BY latest_added_at DESC; rows with equal keys come back by rowid,
\* ascending or descending (tie_asc), as the store's query plan has it.
RECURSIVE OrderItems(_, _)
OrderItems(S, tie_asc) ==
    IF S = {} THEN <<>>
    ELSE LET top == {r \in S : \A q \in S : r.latest_added_at >= q.latest_added_at}
             r == CHOOSE x \in top : \A y \in top : IF tie_asc THEN x.id <= y.id
                                                     ELSE x.id >= y.id
         IN <<r>> \o OrderItems(S \ {r}, tie_asc)

RECURSIVE DeleteStaleParts(_, _, _)
DeleteStaleParts(c, ps, pre_scan_timestamp) ==
    IF ps = {} \/ ~Live(c) THEN c
    ELSE LET p == FirstRow(ps)
         IN DeleteStaleParts(IF p.updated_at < pre_scan_timestamp
                             THEN delete_video_part(c, p.id) ELSE c,
                             ps \ {p}, pre_scan_timestamp)

CleanVersion(c, v, pre_scan_timestamp) ==
    Bind(Call(c), LAMBDA c1 :
    Bind(IF ~Live(c1) THEN c1
         ELSE DeleteStaleParts(c1, get_video_parts_by_version(c1, v.id), pre_scan_timestamp),
         LAMBDA c2 :
    Bind(Call(c2), LAMBDA c3 :
         IF ~Live(c3) THEN c3
         ELSE IF get_video_parts_by_version(c3, v.id) = {}
              THEN delete_video_version(c3, v.id)
         ELSE c3)))

RECURSIVE CleanVersions(_, _, _)
CleanVersions(c, vs, pre_scan_timestamp) ==
    IF vs = {} \/ ~Live(c) THEN c
    ELSE CleanVersions(CleanVersion(c, FirstRow(vs), pre_scan_timestamp),
                       vs \ {FirstRow(vs)}, pre_scan_timestamp)

CleanItem(c, item, pre_scan_timestamp) ==
    Bind(Call(c), LAMBDA c1 :
    Bind(IF ~Live(c1) THEN c1
         ELSE CleanVersions(c1, get_video_versions_by_item(c1, item.id), pre_scan_timestamp),
         LAMBDA c2 :
    Bind(Call(Call(c2)), LAMBDA c4 :
         IF ~Live(c4) THEN c4
         ELSE IF get_video_versions_by_item(c4, item.id) = {}
                 /\ get_video_items_by_parent(c4, item.id) = {}
              THEN delete_video_item(c4, item.id)
         ELSE c4)))

RECURSIVE CleanItems(_, _, _)
CleanItems(c, its, pre_scan_timestamp) ==
    IF its = <<>> \/ ~Live(c) THEN c
    ELSE CleanItems(CleanItem(c, Head(its), pre_scan_timestamp), Tail(its),
                    pre_scan_timestamp)

cleanup_deleted_files(c, index_id, pre_scan_timestamp, tie_asc) ==
    Bind(Call(c), LAMBDA c1 :
         IF ~Live(c1) THEN c1
         ELSE CleanItems(c1, OrderItems({r \in c1.items : r.index_id = index_id}, tie_asc),
                         pre_scan_timestamp))

\* ------------------------------------------------------- folder walk
\* The order read_dir lists names in, by name or the reverse (list_asc).
NameOrder ==
    <<"2024-10-15.mkv", "2024-13-40.mkv", "Avatar (2009)", "Avatar (2009) Bonus", "Avatar (2009) - part1.mkv", "Avatar (2009) - part2.mkv",
      "Avatar (2009).mkv", "Behind The Scenes", "E01.avi", "E01.mkv", "E02.mkv",
      "E05.mkv", "Extras", "Making Of.mkv", "News", "Season 1", "Season 2", "Show",
      "Show S01E02.mkv", "Specials", "x.mkv", "y.mkv", "z.mkv">>

NameRank(name) == CHOOSE i \in 1..Len(NameOrder) : NameOrder[i] = name

RECURSIVE Listing(_, _)
Listing(S, list_asc) ==
    IF S = {} THEN <<>>
    ELSE LET p == CHOOSE x \in S : \A y \in S :
                     IF list_asc THEN NameRank(Last(x)) <= NameRank(Last(y))
                     ELSE NameRank(Last(x)) >= NameRank(Last(y))
         IN <<p>> \o Listing(S \ {p}, list_asc)

\* SourcePathTracker::remove_source_path
remove_source_path(c, path) == IF c.tracker = path THEN [c EXCEPT !.tracker = NoPath] ELSE c

\* The error of a file is not caught: it ends the loop over the files.
RECURSIVE ProcessFiles_Propagates(_, _, _, _)
ProcessFiles_Propagates(c, fs, index_id, files) ==
    IF files = <<>> \/ ~Live(c) THEN c
    ELSE IF classify_path(Head(files)).media_type = Panicked THEN Panics(c)
    ELSE ProcessFiles_Propagates(process_video_file(c, fs, index_id, Head(files)),
                                 fs, index_id, Tail(files))

RECURSIVE ProcessFiles(_, _, _, _)
ProcessFiles(c, fs, index_id, files) ==
    IF files = <<>> \/ c.dead THEN c
    ELSE IF classify_path(Head(files)).media_type = Panicked THEN Panics(c)
    ELSE ProcessFiles(Caught(process_video_file(c, fs, index_id, Head(files))),
                      fs, index_id, Tail(files))

Marker(d) == [marker |-> TRUE, path |-> d]
Dir(d) == [marker |-> FALSE, path |-> d]

RECURSIVE DirEntries(_)
DirEntries(ds) == IF ds = <<>> THEN <<>> ELSE <<Dir(Head(ds))>> \o DirEntries(Tail(ds))

\* The files of a directory are processed when its removal signal is
\* popped, after its subdirectories.
scan_folder_step_SubdirsFirst(c, files, index_id, stk, list_asc) ==
    LET top == Last(stk)
        rest == Front(stk)
    IN IF top.marker
       THEN Bind(ProcessFiles(c, files, index_id,
                              Listing(FilesIn(files, top.path), list_asc)), LAMBDA c1 :
            IF c1.tracker = top.path
            THEN [c |-> process_temp_files(remove_source_path(c1, top.path), index_id,
                                           top.path),
                  stack |-> rest]
            ELSE [c |-> c1, stack |-> rest])
       ELSE IF top.path \in Unreadable THEN [c |-> Raise(c), stack |-> rest]
       ELSE [c |-> c,
             stack |-> rest \o <<Marker(top.path)>>
                           \o DirEntries(Listing(SubdirsOf(files, top.path), list_asc))]

\* The removal signal of a directory is pushed after its subdirectories, so
\* it is popped before they are walked.
scan_folder_step_MarkerOnTop(c, files, index_id, stk, list_asc) ==
    LET top == Last(stk)
        rest == Front(stk)
    IN IF top.marker
       THEN IF c.tracker = top.path
            THEN [c |-> process_temp_files(remove_source_path(c, top.path), index_id, top.path),
                  stack |-> rest]
            ELSE [c |-> c, stack |-> rest]
       ELSE IF top.path \in Unreadable THEN [c |-> Raise(c), stack |-> rest]
       ELSE [c |-> ProcessFiles(c, files, index_id, Listing(FilesIn(files, top.path), list_asc)),
             stack |-> rest \o DirEntries(Listing(SubdirsOf(files, top.path), list_asc))
                           \o <<Marker(top.path)>>]

\* One turn of the loop of scan_folder_recursive: the popped entry is a
\* removal signal or a directory.  The result is the context and the stack;
\* an error left in the context aborts the walk of this root.
scan_folder_step(c, files, index_id, stk, list_asc) ==
    LET top == Last(stk)
        rest == Front(stk)
    IN IF top.marker
       THEN IF c.tracker = top.path
            THEN [c |-> process_temp_files(remove_source_path(c, top.path), index_id, top.path),
                  stack |-> rest]
            ELSE [c |-> c, stack |-> rest]
       ELSE IF top.path \in Unreadable THEN [c |-> Raise(c), stack |-> rest]
       ELSE [c |-> ProcessFiles(c, files, index_id, Listing(FilesIn(files, top.path), list_asc)),
             stack |-> rest \o <<Marker(top.path)>>
                           \o DirEntries(Listing(SubdirsOf(files, top.path), list_asc))]

\* ------------------------------------------------------- a whole scan
\* scan_folder_recursive run to its end: the context it leaves, an error
\* included.
RECURSIVE RunWalk(_, _, _, _, _)
RunWalk(c, files, index_id, stk, list_asc) ==
    IF stk = <<>> \/ ~Live(c) THEN c
    ELSE Bind(scan_folder_step(c, files, index_id, stk, list_asc), LAMBDA r :
              RunWalk(r.c, files, index_id, r.stack, list_asc))

\* The loop of scan_video_index over the folders: an error of a folder's
\* walk is logged and dropped.
RECURSIVE RunRoots(_, _, _, _, _)
RunRoots(c, files, index_id, folders, list_asc) ==
    IF folders = <<>> \/ c.dead THEN c
    ELSE RunRoots(remove_source_path(
                      Caught(IF DirExists(files, Head(folders))
                             THEN RunWalk(c, files, index_id, <<Dir(Head(folders))>>, list_asc)
                             ELSE c),
                      Head(folders)),
                  files, index_id, Tail(folders), list_asc)

\* scan_video_index from the loop over the folders to the reaping, run in
\* one piece.
scan_video_index(c, files, index_id, folders, tie_asc, list_asc) ==
    Bind(process_temp_files(RunRoots(c, files, index_id, folders, list_asc), index_id, NoPath),
         LAMBDA c1 :
         IF ~Live(c1) THEN c1
         ELSE Caught(cleanup_deleted_files(c1, index_id, c.now, tie_asc)))

\* ------------------------------------------------------- views of the store
\* The store without its row ids and timestamps: every item as the chain of
\* descriptions from itself up to its top-level ancestor, every part with
\* its file and the chain of the item that owns it.
Describe(r) ==
    [type |-> r.type, title |-> r.title, source_path |-> r.source_path,
     number |-> r.number, extra_type |-> r.extra_type, index_id |-> r.index_id]

RECURSIVE Chain(_, _)
Chain(its, r) ==
    IF r.parent_id = NoId \/ ~\E q \in its : q.id = r.parent_id THEN <<Describe(r)>>
    ELSE <<Describe(r)>> \o Chain(its, CHOOSE q \in its : q.id = r.parent_id)

OwnerOf(c, p) ==
    CHOOSE r \in c.items : \E v \in c.versions : v.id = p.version_id /\ v.item_id = r.id

Canon(c) ==
    [items |-> {Chain(c.items, r) : r \in c.items},
     parts |-> {[path |-> p.path, content |-> p.content, part_index |-> p.part_index,
                 owner |-> Chain(c.items, OwnerOf(c, p))] : p \in c.parts},
     rows |-> <<Cardinality(c.items), Cardinality(c.versions), Cardinality(c.parts)>>]

\* The store without the parts' updated_at.
Snap(c) ==
    [items |-> c.items, versions |-> c.versions,
     parts |-> {[id |-> p.id, version_id |-> p.version_id, path |-> p.path,
                 content |-> p.content, part_index |-> p.part_index] : p \in c.parts}]

NoSnap == [items |-> {}, versions |-> {}, parts |-> {}]
NoCanon == [items |-> {}, parts |-> {}, rows |-> <<0, 0, 0>>]

\* ------------------------------------------------------- the machine
\* fs: the media files on disk.  now: the wall clock in seconds.  conf: how
\* index 2 is configured.  tieAsc, listAsc: the orders the store and the
\* operating system happen to use, fixed for a run.  pc, cur, mode, rec_list,
\* pre_scan, roots, stack: where the scanner worker is in
\* process_scanning_cycle / scan_video_index / scan_folder_recursive.
\* nfail, ncrash, nfsops, nenq count what the environment has done.
\* prev and expect are history variables: prev is how the last scan that
\* returned left things; expect is what the scan that is running (or was
\* interrupted) produces when nothing interrupts it; errs tells whether a
\* step of the scan that is running has met an error (logged or returned).
VARIABLES fs, now, conf, tieAsc, listAsc,
          pc, cur, mode, rec_list, pre_scan, roots, stack,
          nfail, ncrash, nfsops, nenq,
          prev, expect, errs

\* The fingerprint of one file (utils/hash.rs) and the reply to one request
\* for the connect code (api/handlers.rs); "off" while the scanner is what
\* is explored.
VARIABLES h_pc, h_size, h_i, h_reads,
          k_pc, k_ip, k_port, k_code

hashv == <<h_pc, h_size, h_i, h_reads>>
codev == <<k_pc, k_ip, k_port, k_code>>
util == <<hashv, codev>>

store == <<items, versions, parts, nextId, idx>>
worker == <<buf_new, buf_extra, tracker, pc, cur, mode, rec_list, pre_scan, roots, stack>>
world == <<fs, now, conf, tieAsc, listAsc, util>>
budget == <<nfail, ncrash, nfsops, nenq>>
history == <<prev, expect, errs>>
vars == <<store, worker, world, budget, history>>

HashOff == h_pc = "off" /\ h_size = 0 /\ h_i = 0 /\ h_reads = <<>>
CodeOff == k_pc = "off" /\ k_ip = <<0, 0, 0, 0>> /\ k_port = 0 /\ k_code = <<>>

\* The installations explored: what is on disk, how index 2 is configured,
\* and the two orders.
Setups ==
    {[fs |-> FsTv, conf |-> "videos", tieAsc |-> TRUE, listAsc |-> TRUE],
     [fs |-> FsTv, conf |-> "nofolders", tieAsc |-> FALSE, listAsc |-> TRUE],
     [fs |-> FsGeneric, conf |-> "nofolders", tieAsc |-> TRUE, listAsc |-> TRUE],
     [fs |-> FsGeneric, conf |-> "photos", tieAsc |-> TRUE, listAsc |-> FALSE],
     [fs |-> FsMovie, conf |-> "tworoots", tieAsc |-> TRUE, listAsc |-> TRUE],
     [fs |-> FsShow, conf |-> "tworoots", tieAsc |-> TRUE, listAsc |-> TRUE],
     [fs |-> FsParts, conf |-> "photos", tieAsc |-> TRUE, listAsc |-> TRUE],
     [fs |-> FsSeason, conf |-> "photos", tieAsc |-> TRUE, listAsc |-> FALSE],
     [fs |-> FsLoose, conf |-> "photos", tieAsc |-> TRUE, listAsc |-> TRUE],
     [fs |-> FsTwoRoots, conf |-> "tworoots", tieAsc |-> TRUE, listAsc |-> FALSE],
     [fs |-> FsMixed, conf |-> "photos", tieAsc |-> TRUE, listAsc |-> TRUE],
     [fs |-> FsBare, conf |-> "photos", tieAsc |-> TRUE, listAsc |-> FALSE],
     [fs |-> FsSibling, conf |-> "photos", tieAsc |-> TRUE, listAsc |-> TRUE],
     [fs |-> FsShowExtra, conf |-> "photos", tieAsc |-> TRUE, listAsc |-> TRUE],
     [fs |-> FsNews, conf |-> "photos", tieAsc |-> TRUE, listAsc |-> TRUE],
     [fs |-> FsSpecials, conf |-> "photos", tieAsc |-> TRUE, listAsc |-> TRUE]}

InitWith(S) ==
    /\ items = {} /\ versions = {} /\ parts = {}
    /\ nextId = [item |-> 1, version |-> 1, part |-> 1]
    /\ idx = [i \in Indexes |-> [status |-> "idle", last_scanned_at |-> NoNum]]
    /\ buf_new = <<>> /\ buf_extra = <<>> /\ tracker = NoPath
    /\ \E s \in S : /\ fs = s.fs /\ conf = s.conf
                         /\ tieAsc = s.tieAsc /\ listAsc = s.listAsc
    /\ now = 0
    /\ pc = "idle" /\ cur = NoId /\ mode = "fresh" /\ rec_list = <<>>
    /\ pre_scan = 0 /\ roots = <<>> /\ stack = <<>>
    /\ nfail = 0 /\ ncrash = 0 /\ nfsops = 0 /\ nenq = 0
    /\ prev = [index |-> NoId, done |-> FALSE, fs |-> EmptyFs, snap |-> NoSnap]
    /\ expect = NoCanon /\ errs = FALSE
    /\ HashOff /\ CodeOff

Init == InitWith(Setups)

\* The fault injected into one step of the worker.
Faults ==
    {[kind |-> "none", at |-> 0 - 1]}
        \cup {[kind |-> k, at |-> n] : k \in {"fail", "crash"}, n \in 0..MaxOps}

Start(f) == Ctx(f.at, f.kind, now)

\* A run that only counts its store calls (cd is what is left of
\* MaxOps + 2), and the faults that can be injected into a run that leaves
\* that much: a fault at a call the run never comes to is no fault.
Counting == Ctx(MaxOps + 2, "none", now)
FaultsWithin(left) ==
    {f \in Faults : f.kind = "none" \/ left < 0 \/ f.at < MaxOps + 2 - left}

\* What the environment has done so far: requests, faults, file system
\* changes, seconds passed.
Events == nenq + nfail + ncrash + nfsops + now

FaultOk(f, c) ==
    \/ f.kind = "none"
    \/ f.kind = "fail" /\ c.hit /\ nfail < MaxFail /\ Events < MaxEvents
    \/ f.kind = "crash" /\ c.hit /\ ncrash < MaxCrash /\ Events < MaxEvents

\* The step ends with the store as the context has it.  A killed process
\* loses the worker's memory and is started again (start_scanning_process);
\* a task that panicked is not.
Finish(c, pcN, curN, modeN, recN, preN, rootsN, stackN) ==
    /\ items' = c.items /\ versions' = c.versions /\ parts' = c.parts
    /\ nextId' = c.nextId /\ idx' = c.idx
    /\ IF c.dead
       THEN /\ buf_new' = <<>> /\ buf_extra' = <<>> /\ tracker' = NoPath
            /\ pc' = (IF c.panic THEN "panicked" ELSE "idle")
            /\ cur' = NoId /\ mode' = "fresh" /\ rec_list' = <<>>
            /\ pre_scan' = 0 /\ roots' = <<>> /\ stack' = <<>>
            /\ ncrash' = (IF c.panic THEN ncrash ELSE ncrash + 1)
            /\ nfail' = (IF c.panic /\ c.hit THEN nfail + 1 ELSE nfail)
       ELSE /\ buf_new' = IF pcN \in {"idle", "run"} THEN <<>> ELSE c.buf_new
            /\ buf_extra' = IF pcN \in {"idle", "run"} THEN <<>> ELSE c.buf_extra
            /\ tracker' = IF pcN \in {"idle", "run"} THEN NoPath ELSE c.tracker
            /\ pc' = pcN /\ cur' = curN /\ mode' = modeN /\ rec_list' = recN
            /\ pre_scan' = preN /\ roots' = rootsN /\ stack' = stackN
            /\ ncrash' = ncrash /\ nfail' = nfail + (IF c.hit THEN 1 ELSE 0)
    /\ UNCHANGED <<world, nfsops, nenq>>

\* A step of the worker that is not the return of a scan.
Goes(c, pcN, curN, modeN, recN, preN, rootsN, stackN) ==
    /\ Finish(c, pcN, curN, modeN, recN, preN, rootsN, stackN)
    /\ UNCHANGED <<prev, expect>>
    /\ errs' = (pc' \in {"roots", "walk", "reap", "done"} /\ (errs \/ c.logged \/ c.err))

ToIdle(c) == Goes(c, "idle", NoId, "fresh", <<>>, 0, <<>>, <<>>)

\* The failed scan is stamped like a finished one.
AfterScan_Stamps(c) ==
    IF mode = "fresh" /\ c.err
    THEN Caught(update_scan_status_with_timestamp(Caught(c), cur, "failed", c.now))
    ELSE c

\* What process_scanning_cycle does with the result of scan_video_index:
\* a fresh scan that failed is marked failed (a failure of that write is
\* logged and dropped); the error of a re-run is passed on with `?`.
AfterScan(c) ==
    IF mode = "fresh" /\ c.err
    THEN Caught(update_scan_status(Caught(c), cur, "failed"))
    ELSE c

\* scan_video_index has returned to process_scanning_cycle: with Ok(()) or,
\* when the context carries an error, with Err.
ScanReturns(c) ==
    /\ IF mode = "recover" /\ ~c.err /\ Len(rec_list) > 1
       THEN Finish(c, "run", rec_list[2], "recover", Tail(rec_list), 0, <<>>, <<>>)
       ELSE Finish(Caught(AfterScan(c)), "idle", NoId, "fresh", <<>>, 0, <<>>, <<>>)
    /\ errs' = FALSE
    /\ IF c.dead THEN UNCHANGED <<prev, expect>>
       ELSE /\ prev' = [index |-> cur, done |-> idx'[cur].status = "done", fs |-> fs,
                        snap |-> Snap(AfterScan(c))]
            /\ expect' = NoCanon

\* Vec order of a query result: by rowid.
RECURSIVE InIdOrder(_)
InIdOrder(S) == IF S = {} THEN <<>> ELSE <<MinOf(S)>> \o InIdOrder(S \ {MinOf(S)})

\* max_by_key in the place of min_by_key.
OldestQueued_MaxByKey(queued, ix) ==
    MaxOf({i \in queued : \A j \in queued : ix[i].last_scanned_at >= ix[j].last_scanned_at})

\* min_by_key(last_scanned_at): the first of the minimal elements.
OldestQueued(queued, ix) ==
    MinOf({i \in queued : \A j \in queued : ix[i].last_scanned_at <= ix[j].last_scanned_at})

\* ------------------------------------------------------- worker actions
NoFault == [kind |-> "none", at |-> 0 - 1]

\* process_scanning_cycle up to the choice of what to run: the interrupted
\* scans if there are any, else the queued index scanned longest ago.
\* A cycle that does not look for interrupted scans.
InterruptedScans_NotLookedFor(c) == {}

\* The indexes a killed run left in status scanning, as the cycle reads them.
InterruptedScans(c) == get_indexes_by_scan_status(c, "scanning")

\* The queued indexes are read only when no scan was interrupted.
PickWork(c1) == IF Live(c1) /\ InterruptedScans(c1) = {} THEN Call(c1) ELSE c1

CycleStart ==
    /\ pc = "idle"
    /\ \E left \in {PickWork(Call(Counting)).cd} : \E f \in FaultsWithin(left) :
        \E c2 \in {PickWork(Call(Start(f)))} :
        \E scanning \in {InterruptedScans(c2)} :
        \E queued \in {get_indexes_by_scan_status(c2, "queued")} :
           /\ FaultOk(f, c2)
           /\ IF ~Live(c2) THEN ToIdle(Caught(c2))
              ELSE IF scanning # {}
                   THEN Goes(c2, "run", MinOf(scanning), "recover", InIdOrder(scanning),
                               0, <<>>, <<>>)
              ELSE IF queued = {} THEN ToIdle(c2)
              ELSE Goes(c2, "picked", OldestQueued(queued, c2.idx), "fresh", <<>>,
                          0, <<>>, <<>>)

\* update_scan_status(oldest_index.id, "scanning")?
SetScanning ==
    /\ pc = "picked"
    /\ \E left \in {update_scan_status(Counting, cur, "scanning").cd} :
        \E f \in FaultsWithin(left) :
        \E c1 \in {update_scan_status(Start(f), cur, "scanning")} :
           /\ FaultOk(f, c1)
           /\ IF c1.err THEN ToIdle(Caught(c1))
              ELSE Goes(c1, "run", cur, "fresh", <<>>, 0, <<>>, <<>>)

\* The match on the index type, and scan_video_index up to the loop over the
\* folders.
RunIndex ==
    /\ pc = "run"
    /\ IF IndexType(conf, cur) # "videos"
       THEN \E left \in {update_scan_status(Counting, cur, "failed").cd} :
            \E f \in FaultsWithin(left) :
            \E c1 \in {update_scan_status(Start(f), cur, "failed")} :
                /\ FaultOk(f, c1)
                /\ IF mode = "fresh" THEN ToIdle(Caught(c1)) ELSE ScanReturns(c1)
       ELSE IF IndexFolders(conf, cur) = <<>> THEN ScanReturns(Start(NoFault))
       ELSE /\ Finish(Start(NoFault), "roots", cur, mode, rec_list, now,
                       IndexFolders(conf, cur), <<>>)
            /\ prev' = prev /\ errs' = FALSE
            /\ expect' = IF mode = "fresh"
                         THEN Canon(scan_video_index(Start(NoFault), fs, cur,
                                                     IndexFolders(conf, cur), tieAsc, listAsc))
                         ELSE expect

\* scan_folder_recursive up to its loop.
RootStart ==
    /\ pc = "roots" /\ roots # <<>>
    /\ IF DirExists(fs, Head(roots))
       THEN Goes(Start(NoFault), "walk", cur, mode, rec_list, pre_scan, roots,
                   <<Dir(Head(roots))>>)
       ELSE Goes(remove_source_path(Start(NoFault), Head(roots)), "roots", cur, mode,
                   rec_list, pre_scan, Tail(roots), <<>>)

\* One turn of the loop of scan_folder_recursive; when the walk of the root
\* ends, with or without an error, the loop over the folders goes on.
WalkStep ==
    /\ pc = "walk"
    /\ \E left \in {scan_folder_step(Counting, fs, cur, stack, listAsc).c.cd} :
        \E f \in FaultsWithin(left) :
        \E r \in {scan_folder_step(Start(f), fs, cur, stack, listAsc)} :
           /\ FaultOk(f, r.c)
           /\ IF r.c.err \/ r.stack = <<>>
              THEN Goes(remove_source_path(Caught(r.c), Head(roots)), "roots", cur, mode,
                          rec_list, pre_scan, Tail(roots), <<>>)
              ELSE Goes(r.c, "walk", cur, mode, rec_list, pre_scan, roots, r.stack)

\* process_temp_files(..., "")? after the last folder.
FinalCommit ==
    /\ pc = "roots" /\ roots = <<>>
    /\ \E left \in {process_temp_files(Counting, cur, NoPath).cd} :
        \E f \in FaultsWithin(left) :
        \E c1 \in {process_temp_files(Start(f), cur, NoPath)} :
           /\ FaultOk(f, c1)
           /\ IF c1.err THEN ScanReturns(c1)
              ELSE Goes(c1, "reap", cur, mode, rec_list, pre_scan, <<>>, <<>>)

\* cleanup_deleted_files, its error logged and dropped.
Reap ==
    /\ pc = "reap"
    /\ \E left \in {cleanup_deleted_files(Counting, cur, pre_scan, tieAsc).cd} :
        \E f \in FaultsWithin(left) :
        \E c1 \in {cleanup_deleted_files(Start(f), cur, pre_scan, tieAsc)} :
           /\ FaultOk(f, c1)
           /\ Goes(Caught(c1), "done", cur, mode, rec_list, pre_scan, <<>>, <<>>)

\* update_scan_status_with_timestamp(index_id, "done", now)?
SetDone ==
    /\ pc = "done"
    /\ \E left \in {update_scan_status_with_timestamp(Counting, cur, "done", now).cd} :
        \E f \in FaultsWithin(left) :
        \E c1 \in {update_scan_status_with_timestamp(Start(f), cur, "done", now)} :
           /\ FaultOk(f, c1)
           /\ ScanReturns(c1)

\* ------------------------------------------------------- environment
\* The API's scan request: the index becomes queued unless it is scanning.
enqueue_scan(ix, i) ==
    IF ix[i].status = "scanning" THEN ix ELSE [ix EXCEPT ![i].status = "queued"]

Enqueue(i) ==
    /\ nenq < MaxEnqueue /\ Events < MaxEvents
    /\ enqueue_scan(idx, i) # idx
    /\ idx' = enqueue_scan(idx, i)
    /\ nenq' = nenq + 1
    /\ UNCHANGED <<items, versions, parts, nextId, worker, world, nfail, ncrash, nfsops, history>>

\* The clock is read in whole seconds; it moves on between cycles.
Tick ==
    /\ pc = "idle"
    /\ now < MaxTime /\ Events < MaxEvents
    /\ now' = now + 1
    /\ UNCHANGED <<store, worker, fs, conf, tieAsc, listAsc, util, budget, history>>

\* The media folders change while no scan is running or interrupted.
Quiet == pc = "idle" /\ \A i \in Indexes : idx[i].status # "scanning"

FsDelete(p) ==
    /\ Quiet /\ nfsops < MaxFsOps /\ Events < MaxEvents
    /\ fs[p] # Absent
    /\ fs' = [fs EXCEPT ![p] = Absent]
    /\ nfsops' = nfsops + 1
    /\ UNCHANGED <<store, worker, now, conf, tieAsc, listAsc, util, nfail, ncrash, nenq, history>>

FsRename(p, q) ==
    /\ Quiet /\ nfsops < MaxFsOps /\ Events < MaxEvents
    /\ fs[p] # Absent /\ fs[q] = Absent
    /\ fs' = [fs EXCEPT ![p] = Absent, ![q] = fs[p]]
    /\ nfsops' = nfsops + 1
    /\ UNCHANGED <<store, worker, now, conf, tieAsc, listAsc, util, nfail, ncrash, nenq, history>>

\* A file is moved from one root folder of a library to another.
FsMove(p, q) == conf = "tworoots" /\ FsRename(p, q)

FsCopy(p, q) ==
    /\ Quiet /\ nfsops < MaxFsOps /\ Events < MaxEvents
    /\ fs[p] # Absent /\ fs[q] = Absent
    /\ fs' = [fs EXCEPT ![q] = fs[p]]
    /\ nfsops' = nfsops + 1
    /\ UNCHANGED <<store, worker, now, conf, tieAsc, listAsc, util, nfail, ncrash, nenq, history>>

\* A file is copied from one root folder of a library to another.
FsCopyAcross(p, q) == conf = "tworoots" /\ FsCopy(p, q)

Next ==
    \/ CycleStart
    \/ SetScanning
    \/ RunIndex
    \/ RootStart
    \/ WalkStep
    \/ FinalCommit
    \/ Reap
    \/ SetDone
    \/ \E i \in Indexes : Enqueue(i)
    \/ Tick
    \/ \E p \in Paths : FsDelete(p)
    \/ \E r \in Renames : FsRename(r[1], r[2])
    \/ \E r \in RootMoves : FsMove(r[1], r[2])
    \/ \E r \in RootCopies : FsCopyAcross(r[1], r[2])
    \/ \E r \in Copies : FsCopy(r[1], r[2])

Spec == Init /\ [][Next]_vars

\* ------------------------------------------------------- cancellation
\* The status that asks the scanner to stop.
Cancelled == "cancelled"

\* A client of the store writes the sentinel over the status of an index
\* that is being scanned.
Cancel(i) ==
    /\ idx[i].status = "scanning"
    /\ nenq < MaxEnqueue /\ Events < MaxEvents
    /\ idx' = [idx EXCEPT ![i].status = Cancelled]
    /\ nenq' = nenq + 1
    /\ UNCHANGED <<items, versions, parts, nextId, worker, world, nfail, ncrash, nfsops, history>>

\* Two installations whose files do not change.
InitCancel == Init /\ fs \in {FsTv, FsSeason}

NextCancel ==
    \/ CycleStart
    \/ SetScanning
    \/ RunIndex
    \/ RootStart
    \/ WalkStep
    \/ FinalCommit
    \/ Reap
    \/ SetDone
    \/ \E i \in Indexes : Enqueue(i)
    \/ \E i \in Indexes : Cancel(i)

SpecCancel == InitCancel /\ [][NextCancel]_vars

\* ------------------------------------------------------- two video libraries
\* Two video libraries, index 1 over /a and index 2 over /b, that hold a copy
\* of the same file.
InitShared ==
    InitWith({[fs |-> FsShared, conf |-> "videos", tieAsc |-> t, listAsc |-> TRUE] :
                  t \in BOOLEAN})

NextShared ==
    \/ CycleStart
    \/ SetScanning
    \/ RunIndex
    \/ RootStart
    \/ WalkStep
    \/ FinalCommit
    \/ Reap
    \/ SetDone
    \/ \E i \in Indexes : Enqueue(i)
    \/ Tick
    \/ \E q \in Paths : FsDelete(q)

SpecShared == InitShared /\ [][NextShared]_vars

\* ------------------------------------------------------- the scanner kept running
\* start_scanning_process loops for ever: whenever the worker can take its
\* next step it takes it in the end.  The libraries explored are the ones
\* where index 2 has no folder or is of an unsupported kind.
InitLive == Init /\ fs \in {FsTv, FsGeneric} /\ conf \in {"nofolders", "photos"}

NextLive ==
    \/ CycleStart
    \/ SetScanning
    \/ RunIndex
    \/ RootStart
    \/ WalkStep
    \/ FinalCommit
    \/ Reap
    \/ SetDone
    \/ \E i \in Indexes : Enqueue(i)
    \/ Tick

\* The worker has a step to take: it is inside a cycle, or it is between
\* cycles and the next cycle finds an interrupted or a queued index.  (A
\* cycle that finds nothing, and the 30 seconds of sleep after it, leave the
\* worker where it is.)
WorkerCanStep ==
    \/ pc \in {"picked", "run", "roots", "walk", "reap", "done"}
    \/ pc = "idle" /\ \E i \in Indexes : idx[i].status \in {"scanning", "queued"}

\* The worker comes to another place of its loop.  Every step of the worker
\* but a turn of the walk does, and a walk has finitely many turns.
WorkerPcs == {"idle", "picked", "run", "roots", "walk", "reap", "done", "panicked"}
WorkerRuns == WorkerCanStep /\ pc' \in WorkerPcs

\* The loop of start_scanning_process never ends: a worker that has a step
\* to take takes it in the end.
SpecLive == InitLive /\ [][NextLive]_vars /\ WF_pc(WorkerRuns)

\* ------------------------------------------------------- fingerprint
\* An installation without media in which no scan is asked for.
ScanOff ==
    /\ items = {} /\ versions = {} /\ parts = {}
    /\ nextId = [item |-> 1, version |-> 1, part |-> 1]
    /\ idx = [i \in Indexes |-> [status |-> "idle", last_scanned_at |-> NoNum]]
    /\ buf_new = <<>> /\ buf_extra = <<>> /\ tracker = NoPath
    /\ fs = EmptyFs /\ conf = "nofolders" /\ tieAsc = TRUE /\ listAsc = TRUE
    /\ now = 0
    /\ pc = "idle" /\ cur = NoId /\ mode = "fresh" /\ rec_list = <<>>
    /\ pre_scan = 0 /\ roots = <<>> /\ stack = <<>>
    /\ nfail = 0 /\ ncrash = 0 /\ nfsops = 0 /\ nenq = 0
    /\ prev = [index |-> NoId, done |-> FALSE, fs |-> EmptyFs, snap |-> NoSnap]
    /\ expect = NoCanon /\ errs = FALSE

scanner == <<store, worker, fs, now, conf, tieAsc, listAsc, budget, history>>

MiB == 1024 * 1024
SEGMENT_SIZE == 4 * MiB
\* Sizes up to MaxOver bytes above 40 MiB, 50 MiB and 1 GiB are explored.
MaxOver == 7

FileSizes ==
    {0, 1, SEGMENT_SIZE, 40 * MiB - 1}
        \cup {40 * MiB + k : k \in 0..MaxOver}
        \cup {50 * MiB + k : k \in 0..MaxOver}
        \cup {1024 * MiB + k : k \in 0..MaxOver}

\* if file_size < 40 * 1024 * 1024
HashesEntireFile_Inclusive(file_size) ==
    file_size <= 40 * MiB

HashesEntireFile(file_size) ==
    file_size < 40 * MiB

\* let gap_size = (file_size - SEGMENT_SIZE) / 4;
gap_size(file_size) == (file_size - SEGMENT_SIZE) \div 4

\* seek(SeekFrom::Start(at)) and a read of len bytes appended to the data
\* that is hashed.
ReadAt(at, len) == [at |-> at, len |-> len]

InitHash ==
    /\ ScanOff /\ CodeOff
    /\ h_pc = "start" /\ h_size \in FileSizes /\ h_i = 0 /\ h_reads = <<>>

\* calculate_fast_hash: the size decides between the two routines.
HashStart ==
    /\ h_pc = "start"
    /\ h_pc' = (IF HashesEntireFile(h_size) THEN "whole" ELSE "first")
    /\ UNCHANGED <<h_size, h_i, h_reads, codev, scanner>>

\* hash_entire_file: read_to_end from offset 0.
HashEntireFile ==
    /\ h_pc = "whole"
    /\ h_reads' = <<ReadAt(0, h_size)>>
    /\ h_pc' = "done"
    /\ UNCHANGED <<h_size, h_i, codev, scanner>>

\* hash_file_segments, segment 1.
SegmentFirst ==
    /\ h_pc = "first"
    /\ h_reads' = Append(h_reads, ReadAt(0, SEGMENT_SIZE))
    /\ h_i' = 1
    /\ h_pc' = "middle"
    /\ UNCHANGED <<h_size, codev, scanner>>

\* hash_file_segments, one turn of `for i in 1..4`.
SegmentMiddle ==
    /\ h_pc = "middle"
    /\ h_reads' = Append(h_reads, ReadAt(h_i * gap_size(h_size), SEGMENT_SIZE))
    /\ h_i' = h_i + 1
    /\ h_pc' = (IF h_i + 1 < 4 THEN "middle" ELSE "last")
    /\ UNCHANGED <<h_size, codev, scanner>>

\* hash_file_segments, segment 5 and the hash of the combined data.
SegmentLast ==
    /\ h_pc = "last"
    /\ h_reads' = Append(h_reads, ReadAt(h_size - SEGMENT_SIZE, SEGMENT_SIZE))
    /\ h_pc' = "done"
    /\ UNCHANGED <<h_size, h_i, codev, scanner>>

NextHash ==
    \/ HashStart
    \/ HashEntireFile
    \/ SegmentFirst
    \/ SegmentMiddle
    \/ SegmentLast

SpecHash == InitHash /\ [][NextHash]_vars

\* ------------------------------------------------------- connect code
\* A code is the sequence of its characters.
CHARS ==
    <<"A", "B", "C", "D", "E", "F", "G", "H", "J", "K", "L", "M",
      "N", "P", "Q", "R", "S", "T", "U", "V", "W", "X", "Y", "Z">>

\* The digits of num, most significant first (the loop and the reversal).
RECURSIVE Base24Digits(_)
Base24Digits(num) ==
    IF num = 0 THEN <<>>
    ELSE Base24Digits(num \div 24) \o <<CHARS[(num % 24) + 1]>>

number_to_base24(num) ==
    IF num = 0 THEN <<"A">> ELSE Base24Digits(num)

\* while encoded.len() < n { encoded.insert(0, 'A') }
RECURSIVE PadFront(_, _)
PadFront(encoded, n) ==
    IF Len(encoded) < n THEN PadFront(<<"A">> \o encoded, n) ELSE encoded

\* while code.len() < n { code.push('A') }
RECURSIVE PadBack(_, _)
PadBack(code, n) ==
    IF Len(code) < n THEN PadBack(code \o <<"A">>, n) ELSE code

\* Formats C, D and F: every octet from the i-th on as two characters.
RECURSIVE OctetPairs(_, _)
OctetPairs(octets, i) ==
    IF i > Len(octets) THEN <<>>
    ELSE PadFront(number_to_base24(octets[i]), 2) \o OctetPairs(octets, i + 1)

\* The address is given by its four octets.
compress_ip_to_code(octets) ==
    IF octets[1] = 192 /\ octets[2] = 168 /\ octets[3] = 0
    THEN PadBack(<<"A">> \o number_to_base24(octets[4]), 3)
    ELSE IF octets[1] = 192 /\ octets[2] = 168 /\ octets[3] = 1
    THEN PadBack(<<"B">> \o number_to_base24(octets[4]), 3)
    ELSE IF octets[1] = 10 THEN <<"C">> \o OctetPairs(octets, 2)
    ELSE IF octets[1] = 172 THEN <<"D">> \o OctetPairs(octets, 2)
    ELSE <<"F">> \o OctetPairs(octets, 1)

\* crate::constants is not among the sources; nothing checked here depends
\* on the value.
DEFAULT_HTTPS_PORT == 8443

compress_port_to_code(port) ==
    IF port < DEFAULT_HTTPS_PORT THEN PadFront(number_to_base24(port), 4)
    ELSE IF port - DEFAULT_HTTPS_PORT = 0 THEN <<>>
    ELSE IF port - DEFAULT_HTTPS_PORT < 24
         THEN PadFront(number_to_base24(port - DEFAULT_HTTPS_PORT), 1)
    ELSE IF port - DEFAULT_HTTPS_PORT < 24 * 24
         THEN PadFront(number_to_base24(port - DEFAULT_HTTPS_PORT), 2)
    ELSE IF port - DEFAULT_HTTPS_PORT < 24 * 24 * 24
         THEN PadFront(number_to_base24(port - DEFAULT_HTTPS_PORT), 3)
    ELSE PadFront(number_to_base24(port), 4)

compress_to_connect_code(octets, port) ==
    compress_ip_to_code(octets) \o compress_port_to_code(port)

\* Last octets 0..MaxOctet of five networks are explored.
MaxOctet == 30

Addresses ==
    {net \o <<x>> : net \in {<<192, 168, 0>>, <<192, 168, 1>>, <<10, 0, 1>>,
                              <<172, 16, 0>>, <<8, 8, 8>>},
                    x \in 0..MaxOctet}

Ports ==
    {DEFAULT_HTTPS_PORT - 1, DEFAULT_HTTPS_PORT, DEFAULT_HTTPS_PORT + 1,
     DEFAULT_HTTPS_PORT + 24, DEFAULT_HTTPS_PORT + 600}

InitCode ==
    /\ ScanOff /\ HashOff
    /\ k_pc = "asked" /\ k_ip \in Addresses /\ k_port \in Ports /\ k_code = <<>>

\* handle_connect_code: the reply carries the code of the address and port.
HandleConnectCode ==
    /\ k_pc = "asked"
    /\ k_code' = compress_to_connect_code(k_ip, k_port)
    /\ k_pc' = "replied"
    /\ UNCHANGED <<k_ip, k_port, hashv, scanner>>

NextCode == HandleConnectCode

SpecCode == InitCode /\ [][NextCode]_vars

\* ------------------------------------------------------- claims
Scanning == {i \in Indexes : idx[i].status = "scanning"}
Queued == {i \in Indexes : idx[i].status = "queued"}

\* A scan of cur is setting status done in this step.
BecomesDone == pc = "done" /\ idx'[cur].status = "done"

\* No store failure and no kill so far, this step included.
NoFaultSoFar == nfail' = 0 /\ ncrash' = 0

\* No store call has failed and the process was never killed.
NoFaultYet == nfail = 0 /\ ncrash = 0

\* C1: content identity uniqueness: no two distinct parts of the store have
\* the same (size, fast_hash), whatever was scanned, added, deleted, renamed
\* or copied (stated for the runs in which nothing failed).
C1_ContentIdentityUnique ==
    NoFaultYet => \A p, q \in parts : p.content = q.content => p = q

\* C2: source path uniqueness: no two distinct items of one index have the
\* same non-null source_path (stated for the runs in which nothing failed).
C2_SourcePathUnique ==
    NoFaultYet =>
        \A r, q \in items :
            r.index_id = q.index_id /\ r.source_path # NoPath
                /\ r.source_path = q.source_path => r = q

\* C3: when a scan of an index reaches done and the scan that returned just
\* before it was a scan of the same index that reached done over the same
\* files, the store is what that scan left, updated_at aside.
C3_RescanChangesNothing ==
    [][(BecomesDone /\ NoFaultSoFar /\ prev.done /\ prev.index = cur /\ prev.fs = fs)
           => prev'.snap = prev.snap]_vars

PartsOf(its, vs, ps, i) ==
    {p \in ps : \E v \in vs : \E r \in its :
                    v.id = p.version_id /\ r.id = v.item_id /\ r.index_id = i}

UnderRoot(path, folders) == \E k \in 1..Len(folders) : IsProperPrefix(folders[k], path)

\* C4: reap completeness: when a scan of an index reaches done, every part of
\* the index has a path that is a file on disk under a root of the index.
C4_ReapComplete ==
    [][(BecomesDone /\ NoFaultSoFar)
           => \A p \in PartsOf(items', versions', parts', cur) :
                  fs[p.path] # Absent /\ UnderRoot(p.path, IndexFolders(conf, cur))]_vars

\* No two files on disk have the same bytes.
NoTwinFiles == \A p, q \in Paths : fs[p] # Absent /\ fs[p] = fs[q] => p = q

\* C5: crash recovery: when the re-run of a scan that was killed reaches
\* done, the store is, ids and timestamps aside, what the scan would have
\* left had it not been killed (stated for disks without identical files
\* and runs without store failures).
C5_RecoveryReproduces ==
    [][(BecomesDone /\ mode = "recover" /\ nfail' = 0 /\ NoTwinFiles)
           => Canon([items |-> items', versions |-> versions', parts |-> parts'])
                  = expect]_vars

\* The scan routine returns to the cycle in this step (the process is not
\* killed in it).
ScanRoutineReturns ==
    /\ pc \in {"run", "roots", "done"} /\ pc' = "idle"
    /\ ncrash' = ncrash
    /\ IndexType(conf, cur) = "videos"

\* C6: when the scan routine has returned, the index is done, with
\* last_scanned_at the time of completion, or failed: never scanning.
C6_ScanEndsTerminal ==
    [][ScanRoutineReturns
           => /\ idx'[cur].status \in {"done", "failed"}
              /\ idx'[cur].status = "done" => idx'[cur].last_scanned_at = now]_vars

\* C7: a store call that fails during a scan (in the walk, in a commit, in
\* the reaping, in a re-run) leaves the index failed.
C7_StoreFailureFailsScan ==
    [][(pc \in {"walk", "roots", "reap", "done"} /\ nfail' = nfail + 1)
           => idx'[cur].status = "failed"]_vars

\* The step is a commit of the buffers: at a removal signal or after the
\* last folder.
CommitStep == (pc = "roots" /\ roots = <<>>) \/ (pc = "walk" /\ Last(stack).marker)

\* C8: a commit in which a store call fails leaves no row of the batch in
\* the store.
C8_CommitAllOrNothing ==
    [][(CommitStep /\ nfail' = nfail + 1)
           => <<items', versions', parts'>> = <<items, versions, parts>>]_vars

\* C9: at most one index has status scanning, no index becomes scanning
\* while an index has status scanning, and an index that becomes queued was
\* not scanning.
C9_OneScanAtATime ==
    /\ [](Cardinality(Scanning) <= 1)
    /\ [][\A i \in Indexes :
              /\ idx[i].status # "scanning" /\ idx'[i].status = "scanning" => Scanning = {}
              /\ idx[i].status # "queued" /\ idx'[i].status = "queued"
                     => idx[i].status # "scanning"]_vars

\* The worker found an interrupted scan while another index was queued, and
\* chose the re-run.
C9_Witness == pc = "run" /\ mode = "recover" /\ Scanning # {} /\ Queued # {}

\* What a cycle decides, against the statuses it read.
Selected ==
    /\ idx' = idx
    /\ Scanning # {} /\ pc' # "idle" => mode' = "recover" /\ cur' \in Scanning
    /\ Scanning # {} => pc' # "picked"
    /\ pc' = "picked" => /\ cur' \in Queued
                         /\ \A j \in Queued :
                                idx[cur'].last_scanned_at <= idx[j].last_scanned_at
    /\ Scanning = {} /\ Queued # {} /\ nfail' = nfail /\ ncrash' = ncrash => pc' = "picked"
    /\ Scanning = {} /\ Queued = {} => pc' = "idle"

\* The only index that becomes scanning is the queued index the cycle picked.
StartsThePicked ==
    \A i \in Indexes :
        idx[i].status # "scanning" /\ idx'[i].status = "scanning"
            => pc = "picked" /\ mode = "fresh" /\ i = cur /\ idx[i].status = "queued"

\* C10: a cycle that finds an index scanning re-runs it and starts no queued
\* index; otherwise it starts a queued index with the smallest
\* last_scanned_at; with none queued it changes no status.
C10_SchedulerSelection == [][(CycleStart => Selected) /\ StartsThePicked]_vars

\* The cycle picked, of two queued indexes, the one scanned longer ago.
C10_Witness ==
    /\ pc = "picked"
    /\ \E j \in Queued : idx[cur].last_scanned_at < idx[j].last_scanned_at

\* The files are those of the last scan that returned, with one file renamed
\* inside its folder.
RenamedSince(r) ==
    /\ prev.fs[r[1]] # Absent /\ prev.fs[r[2]] = Absent
    /\ fs = [prev.fs EXCEPT ![r[1]] = Absent, ![r[2]] = prev.fs[r[1]]]

\* The three tables have as many rows as the last scan left.
SameCounts(a, b) ==
    /\ Cardinality(a.items) = Cardinality(b.items)
    /\ Cardinality(a.versions) = Cardinality(b.versions)
    /\ Cardinality(a.parts) = Cardinality(b.parts)

\* C11: when a file was renamed inside its source_path folder after a scan
\* and the index is scanned again, the tables have as many rows as before,
\* the part of the file has the new path, and no item has changed.
C11_RenameKeepsRows ==
    [][\A r \in Renames :
          (BecomesDone /\ NoFaultSoFar /\ prev.done /\ prev.index = cur /\ RenamedSince(r))
              => /\ SameCounts(prev'.snap, prev.snap)
                 /\ \A p \in prev.snap.parts :
                        p.path = r[1] => [p EXCEPT !.path = r[2]] \in prev'.snap.parts
                 /\ prev'.snap.items = prev.snap.items]_vars

\* The ids of the rows of a table.
Ids(rows) == {r.id : r \in rows}

\* C12: when the only file of a show was moved with its folders to another
\* root after a scan and the index is scanned again, the item that had the
\* old show folder as source_path has the new one, no item has the old one,
\* no row was created, and the part has the new path.
C12_ShowFolderMoved ==
    [][\A r \in RootMoves :
          (/\ BecomesDone /\ NoFaultSoFar /\ prev.done /\ prev.index = cur
           /\ RenamedSince(r)
           /\ ~DirExists(fs, find_source_path(Folders(r[1]))))
              => /\ \A it \in prev.snap.items :
                        it.source_path = find_source_path(Folders(r[1]))
                            => [it EXCEPT !.source_path = find_source_path(Folders(r[2]))]
                                   \in items'
                 /\ \A it \in items' : it.source_path # find_source_path(Folders(r[1]))
                 /\ Ids(items') \subseteq Ids(prev.snap.items)
                 /\ Ids(versions') \subseteq Ids(prev.snap.versions)
                 /\ Ids(parts') \subseteq Ids(prev.snap.parts)
                 /\ \A p \in prev.snap.parts :
                        p.path = r[1] => \E q \in parts' : q.id = p.id /\ q.path = r[2]]_vars

\* The parts whose version belongs to item r.
PartsOfItem(vs, ps, r) == {p \in ps : \E v \in vs : v.id = p.version_id /\ v.item_id = r.id}

\* C13: a scan that found the two part files of a movie in the movie's
\* folder leaves one movie item with one version that owns two parts, with
\* part_index 1 and 2.
C13_MultiPartMovie ==
    [][(/\ BecomesDone /\ NoFaultSoFar
        /\ fs[P_Pt1] # Absent /\ fs[P_Pt2] # Absent /\ NoTwinFiles)
           => \E r \in items' :
                 /\ \A q \in items' : q.index_id = cur /\ q.type = "movie" => q = r
                 /\ r.type = "movie" /\ r.index_id = cur
                 /\ Cardinality({v \in versions' : v.item_id = r.id}) = 1
                 /\ {<<p.path, p.part_index>> : p \in PartsOfItem(versions', parts', r)}
                        = {<<P_Pt1, 1>>, <<P_Pt2, 2>>}]_vars

\* The step writes a part for file p, which had none, and nothing fails or
\* is killed in it.
CommitsNewFile(p) ==
    /\ fs[p] # Absent
    /\ \A q \in parts : q.path # p /\ q.content # fs[p]
    /\ \E q \in parts' : q.path = p
    /\ nfail' = nfail /\ ncrash' = ncrash

\* The items of kind k under parent par with number n.
Numbered(its, k, par, n) == {r \in its : r.parent_id = par /\ r.number = n /\ r.type = k}

\* The show, season and episode of file p are there, once each, and the
\* part of p belongs to the episode.
HierarchyOf(its, vs, ps, i, p) ==
    \E show \in its : \E season \in its : \E ep \in its :
        /\ {r \in its : r.index_id = i /\ r.type = "show"
                          /\ r.source_path = classify_path(p).source_path} = {show}
        /\ show.title = classify_path(p).title /\ show.parent_id = NoId
        /\ {r \in its : r.parent_id = show.id /\ r.number = classify_path(p).season} = {season}
        /\ season.type = "season" /\ season.title = SeasonTitle(classify_path(p).season)
        /\ {r \in its : r.parent_id = season.id /\ r.number = classify_path(p).episode} = {ep}
        /\ ep.type = "episode" /\ ep.title = EpisodeTitle(classify_path(p).episode)
        /\ \E q \in PartsOfItem(vs, ps, ep) : q.path = p

ExtraUnderMovie(its, vs, ps, i) ==
    \E mv \in its : \E ex \in its :
        /\ mv.type = "movie" /\ mv.index_id = i /\ mv.source_path = Front(P_Mov)
        /\ ex.type = "extra" /\ ex.title = "Making Of"
        /\ ex.extra_type = "behindthescenes" /\ ex.parent_id = mv.id
        /\ \E q \in PartsOfItem(vs, ps, ex) : q.path = P_Ext

\* C15: a scan that found a movie in its folder and a file in the folder's
\* "Behind The Scenes" subfolder leaves the second file as an item of kind
\* extra, title "Making Of", extra_type "behindthescenes", whose parent is
\* the movie item; and an extra is never in the store without its parent.
C15_MovieExtra ==
    /\ [](\A ex \in items : ex.type = "extra" => \E mv \in items : mv.id = ex.parent_id)
    /\ [][(/\ BecomesDone /\ NoFaultSoFar
            /\ fs[P_Mov] # Absent /\ fs[P_Ext] # Absent /\ NoTwinFiles)
               => ExtraUnderMovie(items', versions', parts', cur)]_vars

\* A finished scan has left the extra below the movie.
C15_Witness ==
    /\ pc = "idle" /\ idx[1].status = "done" /\ nfail = 0 /\ ncrash = 0
    /\ ExtraUnderMovie(items, versions, parts, 1)

\* No two items with the same parent have the same number.
OrdinalsUnique(its) ==
    \A r, q \in its :
        r.number # NoNum /\ r.number = q.number /\ r.parent_id = q.parent_id => r = q

\* C16: ordinal uniqueness: no two distinct items with the same parent have
\* the same non-null number, in every state of the store, and a migration of
\* any part of the store to another source path keeps it so.
C16_OrdinalsUnique ==
    /\ OrdinalsUnique(items)
    /\ \A p \in parts : \A disk \in {fs, EmptyFs} :
           OrdinalsUnique(handle_episode_migration(Start(NoFault), disk, p.id,
                                                   <<"a", "Show">>, <<"b", "Show">>).items)

\* A season and two numbered episodes below it, after a re-run of a killed
\* scan.
C16_Witness ==
    /\ ncrash > 0 /\ pc = "idle"
    /\ \E e1, e2 \in items :
           /\ e1.type = "episode" /\ e2.type = "episode"
           /\ e1.parent_id = e2.parent_id /\ e1.number # e2.number

\* C17: every part's version exists, every version's item exists, every
\* item's index exists, and every item's parent, if set, exists and belongs
\* to the same index; in every reachable state, after migrations and reaps too.
RefIntegrity(its, vs, ps) ==
    /\ \A p \in ps : \E v \in vs : v.id = p.version_id
    /\ \A v \in vs : \E r \in its : r.id = v.item_id
    /\ \A r \in its : r.index_id \in DOMAIN idx
    /\ \A r \in its : r.parent_id # NoId =>
           \E q \in its : q.id = r.parent_id /\ q.index_id = r.index_id

C17_RefIntegrity == RefIntegrity(items, versions, parts)

\* A part was migrated between items: after the movie folder was copied
\* into the second folder, its version belongs to an item made for that folder.
C17_Witness ==
    /\ pc = "idle"
    /\ \E r \in items : \E v \in versions : \E p \in parts :
           /\ r.source_path = <<"b", "Avatar (2009)">>
           /\ v.item_id = r.id /\ p.version_id = v.id
    /\ RefIntegrity(items, versions, parts)

\* The source_path of file p, when the scanner tracks one for it.
SourceOf(p) == ScanSourcePath(p, classify_path(p))
Tracked(p) == classify_path(p).media_type # "Extra" /\ SourceOf(p) # NoPath

\* The step inserts a part row for file p.
NewPartFor(p) == \E q \in parts' : q.path = p /\ q.id \notin Ids(parts)

\* The step pops the removal signal of directory d.
PopsMarker(d) ==
    pc = "walk" /\ stack # <<>> /\ Last(stack) = Marker(d) /\ (stack' # stack \/ pc' # pc)

\* The step is the commit after the last folder.
IsFinalCommit == pc = "roots" /\ roots = <<>> /\ pc' # pc

\* No directory at or below d waits on the stack.
SubtreeWalked(d) == \A k \in 1..Len(stack) : stack[k].marker \/ ~IsPrefix(d, stack[k].path)

NoEmptyRows(its, vs, ps, i) ==
    /\ \A v \in vs : (\E r \in its : r.id = v.item_id /\ r.index_id = i)
                        => \E p \in ps : p.version_id = v.id
    /\ \A r \in its : r.index_id = i
                        => \/ \E v \in vs : v.item_id = r.id
                           \/ \E q \in its : q.parent_id = r.id

\* The step is cleanup_deleted_files run to its end.
ReapFinishes == pc = "reap" /\ pc' = "done"

\* C19: when the reap of a scan finishes, the index holds no version with
\* zero parts and no item with zero versions and zero children, whatever
\* order the items were visited in (runs without store failure or kill).
C19_ReapLeavesNoEmptyRows ==
    [][(ReapFinishes /\ NoFaultSoFar) => NoEmptyRows(items', versions', parts', cur)]_vars

\* The walk of this folder ends with a directory error: the folder is
\* missing, or a directory below it cannot be read.
WalkAborts(files, folder) ==
    \/ ~DirExists(files, folder)
    \/ \E u \in Unreadable : DirExists(files, u) /\ IsPrefix(folder, u)

RECURSIVE GoodRoots(_, _)
GoodRoots(files, folders) ==
    IF folders = <<>> THEN <<>>
    ELSE (IF WalkAborts(files, Head(folders)) THEN <<>> ELSE <<Head(folders)>>)
             \o GoodRoots(files, Tail(folders))

\* The context of a scan that starts at time t on an empty store.
FreshStore(t) ==
    [Start(NoFault) EXCEPT !.items = {}, !.versions = {}, !.parts = {},
                           !.nextId = [item |-> 1, version |-> 1, part |-> 1],
                           !.buf_new = <<>>, !.buf_extra = <<>>, !.tracker = NoPath,
                           !.now = t]

PartsUnder(canon, folders) == {q \in canon.parts : UnderRoot(q.path, folders)}

\* C20: when the first scan of an index reaches done, the walk of one of
\* its folders having ended with a directory error, the parts stored for
\* the files of the other folders, with the items above them, are those a
\* scan of the other folders alone would have stored (runs without store
\* failure or kill).
C20_OtherRootsUnaffected ==
    [][(BecomesDone /\ NoFaultSoFar /\ ~prev.done
          /\ \E k \in 1..Len(IndexFolders(conf, cur)) :
                 WalkAborts(fs, IndexFolders(conf, cur)[k]))
           => PartsUnder(Canon([items |-> items', versions |-> versions', parts |-> parts']),
                         GoodRoots(fs, IndexFolders(conf, cur)))
                = PartsUnder(Canon(scan_video_index(
                                       FreshStore(pre_scan), fs, cur,
                                       GoodRoots(fs, IndexFolders(conf, cur)),
                                       tieAsc, listAsc)),
                             GoodRoots(fs, IndexFolders(conf, cur)))]_vars

\* The part q of context c, after the move: its owner's id.
OwnerIdOf(c, q) ==
    (CHOOSE v \in c.versions : v.id = (CHOOSE x \in c.parts : x.id = q.id).version_id).item_id

\* The four outcomes of the migration decision, from the store before (c)
\* to the store after (r), for part q of item owner found under source_path sp.
MigrationOutcome(c, r, q, owner, sp, old_path_exists, new_path_has_item) ==
    /\ Live(r)
    /\ (~old_path_exists /\ ~new_path_has_item)
           => r.items = {IF x.id = owner.id THEN [x EXCEPT !.source_path = sp] ELSE x
                           : x \in c.items}
    /\ new_path_has_item
           => /\ Ids(r.items) \subseteq Ids(c.items)
              /\ OwnerIdOf(r, q) \in Ids(get_video_items_by_source_path(c, owner.index_id, sp))
    /\ (old_path_exists /\ ~new_path_has_item)
           => /\ \E n \in r.items :
                     /\ Ids(r.items) \ Ids(c.items) = {n.id}
                     /\ n.source_path = sp /\ OwnerIdOf(r, q) = n.id
              /\ \A x \in r.items : x.id = owner.id => x.source_path = owner.source_path

\* C21: a known part found at a path whose source_path differs from its
\* owning item's source_path: the outcome is the one the pair (old
\* source_path directory on disk, item with the new source_path in the
\* index) selects.  Checked in every reachable state for every stored part
\* and every file on disk that has the part's bytes under another path.
C21_MigrationDecision ==
    \A q \in parts : \A path \in Paths :
        (fs[path] = q.content /\ path # q.path /\ SourceOf(path) # NoPath
            /\ OwnerOf(Start(NoFault), q).source_path # SourceOf(path))
        => MigrationOutcome(
               Start(NoFault), ProcessMovedPart(Start(NoFault), fs, path, q), q,
               OwnerOf(Start(NoFault), q), SourceOf(path),
               OwnerOf(Start(NoFault), q).source_path # NoPath
                   /\ DirExists(fs, OwnerOf(Start(NoFault), q).source_path),
               get_video_items_by_source_path(
                   Start(NoFault), OwnerOf(Start(NoFault), q).index_id, SourceOf(path)) # {})

\* The versions of item r that this step gives to another item.
MovedAway(r) ==
    {v \in versions : v.item_id = r.id
                        /\ \E w \in versions' : w.id = v.id /\ w.item_id # r.id}

\* C22: in a step of the walk (where only a migration deletes items), in
\* runs without store failure or kill, an item is deleted only if every version it
\* had was moved to another item and it had no child item, and an item whose
\* versions were all moved away and that had no child item is deleted; so an
\* item with children is kept, and its children with it.
C22_OldItemDeletedIffEmpty ==
    [][(pc = "walk" /\ NoFaultSoFar)
           => \A r \in items :
                  /\ r.id \notin Ids(items')
                         => /\ get_video_items_by_parent(Start(NoFault), r.id) = {}
                            /\ MovedAway(r) # {}
                            /\ MovedAway(r) = get_video_versions_by_item(Start(NoFault), r.id)
                  /\ (MovedAway(r) # {}
                         /\ MovedAway(r) = get_video_versions_by_item(Start(NoFault), r.id)
                         /\ get_video_items_by_parent(Start(NoFault), r.id) = {})
                         => r.id \notin Ids(items')]_vars

\* C23: within a commit every parent row is inserted before the rows that
\* refer to it.  A commit that is killed or fails after any of its store
\* calls leaves the store as it was at that point, so the property is
\* stated for every reachable store: the parent of an item is stored and
\* was inserted earlier (smaller row id), the item of a version is stored,
\* the version of a part is stored.
C23_ParentsInsertedFirst ==
    /\ \A r \in items : r.parent_id # NoId
           => r.parent_id < r.id /\ \E q \in items : q.id = r.parent_id
    /\ \A v \in versions : v.item_id \in Ids(items)
    /\ \A p \in parts : p.version_id \in Ids(versions)

\* A commit was killed between the insert of the season and that of the
\* episode: the show and the season are stored, the season has no child.
C23_Witness ==
    /\ ncrash > 0
    /\ \E show \in items : \E season \in items :
           /\ show.type = "show" /\ season.type = "season" /\ season.parent_id = show.id
           /\ get_video_items_by_parent(Start(NoFault), season.id) = {}
    /\ versions = {} /\ parts = {}

\* File p has been through process_video_file: it is in a buffer or has a part.
Processed(p) ==
    \/ \E k \in 1..Len(buf_new) : buf_new[k].path = p
    \/ \E k \in 1..Len(buf_extra) : buf_extra[k].path = p
    \/ \E q \in parts : q.path = p

\* C24: files before subdirectories.  New files enter the new-content
\* buffer in the order they are processed, so a buffered file that lies
\* directly in directory D stands before every buffered file of a
\* subdirectory of D; and as long as nothing failed and the files did not
\* change, when a file of a subdirectory of D has been processed, every
\* file directly in D that processing cannot reject (a generic file or an
\* extra) has been processed too.
C24_FilesBeforeSubdirs ==
    /\ \A i, j \in 1..Len(buf_new) :
           IsProperPrefix(Front(buf_new[i].path), Front(buf_new[j].path)) => i < j
    /\ (NoFaultYet /\ nfsops = 0)
           => \A p, q \in Paths :
                  (fs[p] # Absent /\ fs[q] # Absent
                      /\ IsProperPrefix(Front(p), Front(q))
                      /\ classify_path(p).media_type \in {"Generic", "Extra"}
                      /\ Processed(q))
                  => Processed(p)

\* A file of the root and a file two directories below it are both buffered.
C24_Witness ==
    /\ pc = "walk" /\ Len(buf_new) = 2
    /\ buf_new[1].path = P_X /\ buf_new[2].path = P_E01

\* A movie file outside a folder that matches its title: no source_path.
BareMovie(p) == classify_path(p).media_type = "Movie" /\ SourceOf(p) = NoPath

\* The step pops directory d and reads it.
PopsDir(d) ==
    /\ pc = "walk" /\ stack # <<>> /\ Last(stack) = Dir(d) /\ d \notin Unreadable
    /\ (stack' # stack \/ pc' # pc)

\* The files of a listing that come before p.
RECURSIVE Before(_, _)
Before(files, p) ==
    IF files = <<>> \/ Head(files) = p THEN <<>>
    ELSE <<Head(files)>> \o Before(Tail(files), p)

\* The tracker when the walk, having popped the directory of p, comes to p.
TrackerAt(p) ==
    ProcessFiles(Start(NoFault), fs, cur,
                 Before(Listing(FilesIn(fs, Front(p)), listAsc), p)).tracker

\* The movie items without source_path that the step inserts.
NewBareItems ==
    {r \in items' : r.id \notin Ids(items) /\ r.type = "movie" /\ r.source_path = NoPath}

InBufNew(buf, p) == \E k \in 1..Len(buf) : buf[k].path = p

\* C25: in runs without store failure or kill, when the walk processes a
\* new movie file that has no source_path, the file gets its part in that
\* step if the tracker is empty at that moment; if a source_path is tracked,
\* no part is written for it, it is not buffered and no movie item without
\* source_path is inserted.  A movie item without source_path is inserted
\* only in the first case.
C25_BareMovie ==
    [][NoFaultSoFar =>
         /\ \A p \in Paths :
                (BareMovie(p) /\ fs[p] # Absent /\ PopsDir(Front(p))
                    /\ \A q \in parts : q.content # fs[p])
                => /\ ~InBufNew(buf_new', p)
                   /\ IF TrackerAt(p) = NoPath
                      THEN \E q \in parts' : \E v \in versions' : \E r \in items' :
                               /\ q.path = p /\ q.version_id = v.id /\ v.item_id = r.id
                               /\ r.type = "movie" /\ r.source_path = NoPath
                      ELSE (\A q \in parts' : q.path # p) /\ NewBareItems = {}
         /\ NewBareItems # {}
                => \E p \in Paths : /\ BareMovie(p) /\ fs[p] # Absent
                                     /\ PopsDir(Front(p)) /\ TrackerAt(p) = NoPath]_vars

\* The bare movie was rejected by a scan that ended done, an episode file
\* beside it being tracked, and is written by a later scan.
C25_Witness ==
    /\ nfail = 0 /\ ncrash = 0
    /\ prev.done /\ prev.fs[P_Bare] # Absent
    /\ \A q \in prev.snap.parts : q.path # P_Bare
    /\ \E q \in parts : q.path = P_Bare

\* C26: in runs without store failure or kill, when the walk processes a
\* new file whose source_path differs from the one tracked at that moment,
\* the tracker keeps the earlier source_path, the file is not buffered and
\* gets no part, and the walk of the folder goes on: the step ends with the
\* removal signal of the directory pushed.
C26_SourcePathConflict ==
    [][NoFaultSoFar =>
         \A p \in Paths :
             (Tracked(p) /\ fs[p] # Absent /\ PopsDir(Front(p))
                 /\ (\A q \in parts : q.content # fs[p])
                 /\ TrackerAt(p) # NoPath /\ TrackerAt(p) # SourceOf(p))
             => /\ tracker' = TrackerAt(p)
                /\ ~InBufNew(buf_new', p)
                /\ \A q \in parts' : q.path # p
                /\ pc' = "walk"
                /\ \E k \in 1..Len(stack') : stack'[k] = Marker(Front(p))]_vars

\* A scan in which nothing failed ended done although a file was rejected:
\* the loose episode file of /a has its part, the episode of /a/Show, whose
\* source_path conflicted with /a, has none.
C26_Witness ==
    /\ pc = "idle" /\ idx[1].status = "done" /\ nfail = 0 /\ ncrash = 0 /\ nfsops = 0
    /\ fs[P_Loose] # Absent /\ fs[P_E01] # Absent
    /\ \E q \in parts : q.path = P_Loose
    /\ \A q \in parts : q.path # P_E01

\* Item r is a, or stands below a.
IsUnder(its, r, a) == r.id \in Subtree(its, a.id)

\* C27: as long as the files did not change, a stored extra file that is
\* attached to a parent lies inside the directory that is the source_path
\* of the movie or show it stands under, and an extra file that is not
\* attached is an item of kind video.
C27_ExtraInsideSourcePath ==
    nfsops = 0 =>
        \A q \in parts :
            classify_path(q.path).media_type = "Extra"
            => IF OwnerOf(Start(NoFault), q).parent_id # NoId
               THEN \E a \in items :
                        /\ a.source_path # NoPath
                        /\ IsUnder(items, OwnerOf(Start(NoFault), q), a)
                        /\ IsProperPrefix(a.source_path, q.path)
               ELSE OwnerOf(Start(NoFault), q).type = "video"

\* Paths of extras below the show folder /a/Show: of the show, of season 1,
\* of a season that is not stored, of episode 2 of season 1 with and
\* without the season folder.
ExtraProbes ==
    {<<"a", "Show", "Extras", "Making Of.mkv">>,
     <<"a", "Show", "Season 1", "Extras", "Making Of.mkv">>,
     <<"a", "Show", "Season 2", "Extras", "Making Of.mkv">>,
     <<"a", "Show", "Season 1", "Show S01E02", "Extras", "Making Of.mkv">>,
     <<"a", "Show", "Show S01E02", "Extras", "Making Of.mkv">>}

\* The 4 deepest folders of a path.
Deepest4(path) ==
    {path[i] : i \in (IF Len(path) - 1 > 4 THEN Len(path) - 4 ELSE 1)..(Len(path) - 1)}

\* The items the claim names for an extra at path below the show: the
\* episodes an S<d>E<d> folder names, the seasons a folder names.
NamedEpisodes(its, show, path) ==
    {ep \in its : \E f \in Deepest4(path) : \E season \in its :
        /\ MatchSxxEyy(f) # <<>>
        /\ season.parent_id = show.id /\ season.number = MatchSxxEyy(f)[1]
        /\ ep.parent_id = season.id /\ ep.number = MatchSxxEyy(f)[2]}

NamedSeasons(its, show, path) ==
    {season \in its : \E f \in Deepest4(path) :
        /\ season.parent_id = show.id
        /\ \/ SeasonFolderNumber(f) # NoNum /\ season.number = SeasonFolderNumber(f)
           \/ IsSpecialsFolder(f) /\ season.number = 0
           \/ MatchSxxEyy(f) # <<>> /\ season.number = MatchSxxEyy(f)[1]}

ExpectedParents(its, show, path) ==
    IF NamedEpisodes(its, show, path) # {} THEN Ids(NamedEpisodes(its, show, path))
    ELSE IF NamedSeasons(its, show, path) # {} THEN Ids(NamedSeasons(its, show, path))
    ELSE {show.id}

\* The store after the extra at path is committed for the show.
AfterShowExtra(show, path) ==
    process_temp_extra_item(Start(NoFault), show.index_id,
                            [path |-> path, content |-> "c3",
                             extra_type |-> detect_extra(path)], show.source_path)

InvalidDate(p) ==
    /\ MatchDate(Stem(FileName(p))) # <<>>
    /\ \/ MatchDate(Stem(FileName(p)))[2] \notin 1..12
       \/ MatchDate(Stem(FileName(p)))[3] \notin 1..31

\* The walk takes directory d from the stack and lists it.
ListsDir(d) ==
    /\ pc = "walk" /\ stack # <<>> /\ Last(stack) = Dir(d)
    /\ stack' # stack \/ pc' # pc

\* C29: a file whose stem has a date-shaped token with a month outside
\* 1..12 or a day outside 1..31 does not stop the classifier: when the walk
\* lists the folder of such a file, classify_path returns Movie or Generic
\* for it and the scanning task goes on.
C29_InvalidDateRejected ==
    [][\A p \in Paths :
          (InvalidDate(p) /\ fs[p] # Absent /\ ListsDir(Front(p)) /\ ncrash' = ncrash)
          => /\ classify_path(p).media_type \in {"Movie", "Generic"}
             /\ pc' # "panicked"]_vars

\* The source_path the claim gives a TV episode at path p: the folder above
\* a season or specials folder, else the folder of the file.
ExpectedTvSource(p) ==
    IF SeasonFolderNumber(Last(Front(p))) # NoNum \/ IsSpecialsFolder(Last(Front(p)))
    THEN Front(Front(p)) ELSE Front(p)

IsTv(p) == classify_path(p).media_type = "TvEpisode"

\* The show items above the item that owns part q.
ShowsOf(q) ==
    {show \in items : show.type = "show"
                         /\ OwnerOf(Start(NoFault), q).id \in Subtree(items, show.id)}

\* C30: the source_path of a TV episode is the folder that holds the season
\* or specials folder when the file lies directly in "Season <d>",
\* "special" or "specials", and the folder of the file otherwise: every
\* buffered episode carries that source_path, and while nothing failed and
\* the files did not change every stored episode stands under one show
\* item with that source_path, the same item for episodes that share it.
C30_TvSourcePath ==
    /\ \A i \in 1..Len(buf_new) :
           buf_new[i].cls.media_type = "TvEpisode"
           => buf_new[i].cls.source_path = ExpectedTvSource(buf_new[i].path)
    /\ (NoFaultYet /\ nfsops = 0)
           => /\ \A q \in parts :
                     IsTv(q.path)
                     => \E show \in items :
                            /\ ShowsOf(q) = {show}
                            /\ show.source_path = ExpectedTvSource(q.path)
              /\ \A q1, q2 \in parts :
                     (IsTv(q1.path) /\ IsTv(q2.path)
                         /\ ExpectedTvSource(q1.path) = ExpectedTvSource(q2.path))
                     => ShowsOf(q1) = ShowsOf(q2)

\* Paths whose names carry the tokens of more than one stage.
StageProbes ==
    {<<"a", "Show", "Extras", "Show S01E02.mkv">>,
     <<"a", "Avatar (2009)", "Extras", "Avatar (2009).mkv">>,
     <<"a", "News", "Extras", "2024-10-15.mkv">>,
     <<"a", "Show", "Show S01E02 (2009).mkv">>,
     <<"a", "Show", "Show S01E02 2024-10-15.mkv">>,
     <<"a", "News", "News 2024-10-15 (2009).mkv">>,
     <<"a", "Avatar (2009)", "Avatar (2009).mkv">>,
     <<"a", "x.mkv">>}

\* The stage the claim lets win for the file at p.
ExtraStage(p) ==
    \/ \E i \in 1..Len(Folders(p)) : ExtraFolderType(p[i]) # ""
    \/ ExtraSuffixType(Stem(FileName(p))) # ""

DateStage(p) ==
    /\ MatchDate(Stem(FileName(p))) # <<>>
    /\ ~InvalidDate(p)

ExpectedStage(p) ==
    IF ExtraStage(p) THEN "Extra"
    ELSE IF detect_numbered_tv(p) # <<>> THEN "TvEpisode"
    ELSE IF DateStage(p) THEN "TvEpisode"
    ELSE IF MatchMovieYear(Stem(FileName(p))) # <<>> THEN "Movie"
    ELSE "Generic"

\* The result has the shape of its stage and of none of the others.
OneShape(cls) ==
    /\ (cls.extra_type # "") = (cls.media_type = "Extra")
    /\ (cls.season # NoNum /\ cls.episode # NoNum) = (cls.media_type = "TvEpisode")
    /\ (cls.season = NoNum /\ cls.episode = NoNum) = (cls.media_type # "TvEpisode")
    /\ (cls.version # "" \/ cls.part # NoNum) => cls.media_type = "Movie"
    /\ cls.source_path # NoPath => cls.media_type \in {"TvEpisode", "Movie"}

StageOrder(p) ==
    /\ classify_path(p).media_type = ExpectedStage(p)
    /\ OneShape(classify_path(p))
    /\ ExpectedStage(p) = "Generic" => classify_path(p).title = FileName(p)

\* C31: the stages of the classifier are tried in the order extra, numbered
\* episode, dated episode, movie, generic, and the first that matches gives
\* the result, with the shape of that stage only; a generic result has the
\* file name with its extension as title.  Checked for every file of a
\* folder the walk lists, and in every state for the probe paths whose
\* names carry the tokens of several stages.
C31_StageOrder ==
    [][/\ \A p \in Paths :
             (fs[p] # Absent /\ ListsDir(Front(p)) /\ ncrash' = ncrash)
             => StageOrder(p) /\ pc' # "panicked"
       /\ \A p \in StageProbes : StageOrder(p)]_vars

\* The five windows the claim names, in the order they are read.
ExpectedWindows(size) ==
    LET gap == (size - 4 * MiB) \div 4
    IN <<ReadAt(0, 4 * MiB), ReadAt(gap, 4 * MiB), ReadAt(2 * gap, 4 * MiB),
         ReadAt(3 * gap, 4 * MiB), ReadAt(size - 4 * MiB, 4 * MiB)>>

\* C32: the data that is hashed is the whole file when the size is below
\* 40 MiB, and for every size of 40 MiB or more the five 4 MiB windows at
\* 0, gap, 2 gap, 3 gap and size - 4 MiB with gap = floor((size - 4 MiB) / 4),
\* in that order and nothing else; every window lies inside the file.
C32_FingerprintSampling ==
    /\ h_pc = "done"
           => /\ h_reads = (IF h_size < 40 * MiB THEN <<ReadAt(0, h_size)>>
                            ELSE ExpectedWindows(h_size))
              /\ \A i \in 1..Len(h_reads) :
                     h_reads[i].at >= 0 /\ h_reads[i].at + h_reads[i].len <= h_size
    /\ \A i \in 1..Len(h_reads) :
           h_size >= 40 * MiB => h_reads[i] = ExpectedWindows(h_size)[i]

\* A file of exactly 40 MiB has been hashed by its five windows.
C32_Witness == h_pc = "done" /\ h_size = 40 * MiB /\ Len(h_reads) = 5

\* C40: two different pairs of an IPv4 address and a port never get the
\* same connect code: no other pair has the code of the reply.
C40_CodeInjective ==
    k_pc = "replied"
    => \A octets \in Addresses : \A port \in Ports :
           compress_to_connect_code(octets, port) = k_code
           => octets = k_ip /\ port = k_port

\* The worker takes a step of the scan of index i.
ScanStepOf(i) ==
    /\ cur = i /\ pc \in {"roots", "walk", "reap", "done"}
    /\ pc' # pc \/ stack' # stack \/ roots' # roots

\* C33: once the status of an index that is being scanned is the cancel
\* sentinel, the scanner stops: no later step of that scan writes or
\* deletes a part, none sets the status to done, and the step that ends the
\* scan sets the status to failed.
C33_Cancellation ==
    [][\A i \in Indexes :
          (idx[i].status = Cancelled /\ ScanStepOf(i) /\ NoFaultSoFar)
          => /\ parts' = parts
             /\ idx'[i].status \in {Cancelled, "failed"}
             /\ pc' = "idle" => idx'[i].status = "failed"]_vars

\* C34: the reap that ends a scan deletes no part whose file is present
\* with the same bytes at the path the part records, under a folder of the
\* index of the item that owns it, whatever failed earlier in that scan.
C34_ReapSound ==
    [][\A q \in parts :
          (pc = "reap" /\ fs[q.path] = q.content
              /\ UnderRoot(q.path, IndexFolders(conf, OwnerOf(Start(NoFault), q).index_id)))
          => \E p \in parts' : p.id = q.id]_vars

\* The rows of the store that belong to index i.
RowsOf(its, vs, ps, i) ==
    [items |-> {r \in its : r.index_id = i},
     versions |-> {v \in vs : \E r \in its : r.id = v.item_id /\ r.index_id = i},
     parts |-> PartsOf(its, vs, ps, i)]

\* C35: a step of the scan of one index leaves the items, versions and parts
\* of every other index as they were, also when a file of the scanned index
\* has the size and fast_hash of a part of the other index (stated for runs
\* in which no store call has failed and the process was never killed).
C35_IndexIsolation ==
    [][\A a \in Indexes : \A b \in Indexes \ {a} :
          (ScanStepOf(a) /\ NoFaultSoFar)
          => RowsOf(items', versions', parts', b) = RowsOf(items, versions, parts, b)]_vars

\* The video files on disk under a folder of index i.
FilesOf(i) == {p \in Paths : fs[p] # Absent /\ UnderRoot(p, IndexFolders(conf, i))}

\* C36: when a scan of an index reaches done and no step of it met an error,
\* every video file under the folders of the index is the path of exactly
\* one part, and that part hangs under a version and an item of the index.
C36_ScanComplete ==
    [][(BecomesDone /\ NoFaultSoFar /\ ~errs)
           => \A f \in FilesOf(cur) :
                  /\ Cardinality({p \in parts' : p.path = f}) = 1
                  /\ \E p \in PartsOf(items', versions', parts', cur) : p.path = f]_vars

\* C37: in a run in which no store call ever fails and the process is never
\* killed, every index that is queued is eventually done or failed.
C37_NoStarvation ==
    [](nfail = 0 /\ ncrash = 0)
        => \A i \in Indexes :
               (idx[i].status = "queued") ~> (idx[i].status \in {"done", "failed"})

\* What a scan of index i leaves of the store as it is now, ids and
\* timestamps aside, when every directory is listed in the order list_asc.
ScanResult(i, list_asc) ==
    Canon(scan_video_index(Start(NoFault), fs, i, IndexFolders(conf, i), tieAsc, list_asc))

\* C38: when a scan of a video index starts, what it leaves of the store is
\* the same whether the directories are listed in ascending or in
\* descending order of the names.
C38_ListingOrder ==
    (pc = "run" /\ mode = "fresh" /\ IndexType(conf, cur) = "videos")
        => ScanResult(cur, TRUE) = ScanResult(cur, FALSE)

\* The changes of scan_status the scanner may make.
ScannerMoves == {<<"queued", "scanning">>, <<"scanning", "done">>, <<"scanning", "failed">>}

====
